---- MODULE Spec2Model ----
(***************************************************************************)
(* A model of the control-plane event-to-artifact synthesizer of the       *)
(* apim-apk-agent (pkg/managementserver/rest_server.go) and of the entity  *)
(* mirror store it runs beside (package eventhub).                         *)
(*                                                                         *)
(* Seven specifications share the module's variables:                      *)
(*   SpecMirror  the four snapshot replacements, called one at a time;     *)
(*   SpecRace    MarshalMultipleApplications called from several           *)
(*               goroutines at once, one shared-memory access per step;    *)
(*   Spec        the POST /apis handler of StartInternalServer, with the   *)
(*               synthesis of createAPIYaml and createDeployementYaml.     *)
(*   SpecPaths   processOpenAPIPath applied to one path;                   *)
(*   SpecMatcher extractOperations applied to one definition and list of   *)
(*               declared operations;                                      *)
(*   SpecWeights convertAIModelWeightsToModelConfigs applied to one list   *)
(*               of weights;                                               *)
(*   SpecRemoveEnv  removeEnv of the command-line tool, called once.       *)
(* Each specification leaves the variables of the others at their initial  *)
(* values.                                                                 *)
(***************************************************************************)
EXTENDS Integers, Sequences, FiniteSets, TLC

VARIABLES
  \* ---- the entity mirror store (package eventhub) ----
  SubscriptionMap,           \* map[int32]Subscription
  ApplicationMap,            \* map[string]Application
  ApplicationKeyMappingMap,  \* map[string]ApplicationKeyMapping
  KeyManagerMap,             \* map[string]KeyManager
  lastSnapshot,              \* history: per entity kind, the list of the latest replacement
  droppedKey,                \* history: the latest replacement removed a key that was stored
  \* ---- concurrent callers of MarshalMultipleApplications ----
  appMapRef,                 \* the map object the global ApplicationMap points to
  gpc,                       \* per goroutine: its position in MarshalMultipleApplications
  gList,                     \* per goroutine: the appList argument of its call
  resourceMap,               \* per goroutine: its local resourceMap
  gLogged,                   \* per goroutine: <<the map its logging loop (line 122) read>>
  gReturned,                 \* per goroutine: <<the map object its call returned>>
  published,                 \* history: the lists whose maps were stored in ApplicationMap
  \* ---- the POST /apis handler of StartInternalServer ----
  cpConfig,                  \* what config.ReadConfigs returns
  request,                   \* the request the adapter posts (and posts again)
  handled,                   \* the handler has answered the request at least once
  response,                  \* the response of the latest handling
  clientCalls,               \* the calls the latest handling made to the import client
  zipFiles,                  \* the files the latest handling packaged
  synthesized,               \* what the latest handling synthesized
  \* ---- processOpenAPIPath applied to a schema path ----
  schemaPath,                \* the segments of the schema path
  normalizedPath,            \* <<the path processOpenAPIPath returned>>
  \* ---- extractOperations applied to an event ----
  matcherIn,                 \* <<the event it is applied to>>
  matcherOut,                \* <<what it returned and the matches of its loop>>
  \* ---- convertAIModelWeightsToModelConfigs applied to model weights ----
  weightsIn,                 \* <<its arguments weights and apimEndpoints>>
  weightsOut,                \* <<its argument isProd and what it returned>>
  \* ---- removeEnv of the command-line tool (cmd/mi/delete/removeEnv.go) ----
  removeEnvIn,               \* <<its arguments and the files as the call finds them>>
  removeEnvOut               \* <<what it returned, the files as it leaves them, its effects>>

httpVars == <<cpConfig, request, handled, response, clientCalls, zipFiles,
              synthesized>>
mirrorVars == <<SubscriptionMap, ApplicationMap, ApplicationKeyMappingMap,
                KeyManagerMap, lastSnapshot, droppedKey>>
raceVars == <<appMapRef, gpc, gList, resourceMap, gLogged, gReturned, published>>
pathVars == <<schemaPath, normalizedPath>>
matcherVars == <<matcherIn, matcherOut>>
weightVars == <<weightsIn, weightsOut>>
envVars == <<removeEnvIn, removeEnvOut>>
vars == <<mirrorVars, raceVars, httpVars, pathVars, matcherVars, weightVars,
          envVars>>

\* What the actions of one specification leave alone.
notMirror == <<raceVars, httpVars, pathVars, matcherVars, weightVars,
               envVars>>
notRace == <<mirrorVars, httpVars, pathVars, matcherVars, weightVars,
             envVars>>
notHttp == <<mirrorVars, raceVars, pathVars, matcherVars, weightVars,
             envVars>>
notPath == <<mirrorVars, raceVars, httpVars, matcherVars, weightVars,
             envVars>>
notMatcher == <<mirrorVars, raceVars, httpVars, pathVars, weightVars,
                envVars>>
notWeight == <<mirrorVars, raceVars, httpVars, pathVars, matcherVars,
               envVars>>
notEnv == <<mirrorVars, raceVars, httpVars, pathVars, matcherVars,
            weightVars>>

(***************************************************************************)
(* Bounds of the model.                                                    *)
(***************************************************************************)
\* The longest application list a replacement is called with.
MaxList == 2

\* The longest subscription, key mapping or key manager list.
MaxOtherList == 1

\* Go's zero-length map: a function with an empty domain.
EmptyMap == <<>>

\* m[k] = v of a Go map: the entry is added, or overwritten when k is present.
MapPut(m, k, v) == [x \in DOMAIN m \cup {k} |-> IF x = k THEN v ELSE m[x]]

\* All sequences over S of length 0..n.
SeqsUpTo(S, n) == UNION {[1..k -> S] : k \in 0..n}

(***************************************************************************)
(* The entity mirror store.                                                *)
(***************************************************************************)
\* config.GetControlPlaneConnectedTenantDomain(): one process-wide value.
ControlPlaneTenantDomain == "carbon.super"

\* The entities of the control plane's snapshot payloads (types.Application, ...).
\* Fields that the Marshal functions copy unchanged are represented by Name,
\* PolicyID, KeyType and Enabled.
InApplications ==
  { [UUID |-> "app-1", Name |-> "n1", TenantDomain |-> ""],
    [UUID |-> "app-1", Name |-> "n2", TenantDomain |-> "t1"],
    [UUID |-> "app-2", Name |-> "n1", TenantDomain |-> ""] }

InSubscriptions ==
  { [SubscriptionID |-> 1, PolicyID |-> "Gold", TenantDomain |-> ""],
    [SubscriptionID |-> 2, PolicyID |-> "Gold", TenantDomain |-> "t1"] }

\* Two key mappings with different consumer keys and key managers and the same
\* consumerKey:keyManager reference, and so the same place in the map.
InKeyMappings ==
  { [ConsumerKey |-> "ck:a", KeyManager |-> "km", KeyType |-> "PRODUCTION",
     TenantDomain |-> ""],
    [ConsumerKey |-> "ck", KeyManager |-> "a:km", KeyType |-> "SANDBOX",
     TenantDomain |-> "t1"] }

InKeyManagers ==
  { [Name |-> "Resident", Enabled |-> TRUE],
    [Name |-> "Okta", Enabled |-> FALSE] }

\* MarshalApplication: a copy, with the tenant domain backfilled when empty.
MarshalApplication(appInternal) ==
  [UUID |-> appInternal.UUID,
   Name |-> appInternal.Name,
   TenantDomain |-> IF appInternal.TenantDomain = ""
                    THEN ControlPlaneTenantDomain
                    ELSE appInternal.TenantDomain]

\* MarshalSubscription: a copy, with the tenant domain backfilled when empty.
MarshalSubscription(subscriptionInternal) ==
  [SubscriptionID |-> subscriptionInternal.SubscriptionID,
   PolicyID |-> subscriptionInternal.PolicyID,
   TenantDomain |-> IF subscriptionInternal.TenantDomain = ""
                    THEN ControlPlaneTenantDomain
                    ELSE subscriptionInternal.TenantDomain]

\* marshalKeyMapping: a plain copy; the tenant domain is taken as it comes.
marshalKeyMapping(keyMappingInternal) ==
  [ConsumerKey |-> keyMappingInternal.ConsumerKey,
   KeyType |-> keyMappingInternal.KeyType,
   KeyManager |-> keyMappingInternal.KeyManager,
   TenantDomain |-> keyMappingInternal.TenantDomain]

\* MarshalKeyManager: Name and Enabled; Issuer and Certificate stay empty.
MarshalKeyManager(keyManagerInternal) ==
  [Name |-> keyManagerInternal.Name,
   Enabled |-> keyManagerInternal.Enabled,
   Issuer |-> "",
   Certificate |-> ""]

\* GetApplicationKeyMappingReference: consumerKey:keyManager.
GetApplicationKeyMappingReference(keyMapping) ==
  keyMapping.ConsumerKey \o ":" \o keyMapping.KeyManager

\* The loops of the four replacements: resourceMap starts empty and takes the
\* entries of the list in order, a later entry overwriting an earlier one with
\* the same key.
RECURSIVE FillApplications(_, _)
FillApplications(m, list) ==
  IF list = <<>> THEN m
  ELSE FillApplications(MapPut(m, Head(list).UUID, MarshalApplication(Head(list))),
                        Tail(list))

RECURSIVE FillSubscriptions(_, _)
FillSubscriptions(m, list) ==
  IF list = <<>> THEN m
  ELSE FillSubscriptions(
         MapPut(m, Head(list).SubscriptionID, MarshalSubscription(Head(list))),
         Tail(list))

RECURSIVE FillKeyMappings(_, _)
FillKeyMappings(m, list) ==
  IF list = <<>> THEN m
  ELSE FillKeyMappings(
         MapPut(m, GetApplicationKeyMappingReference(Head(list)),
                marshalKeyMapping(Head(list))),
         Tail(list))

RECURSIVE FillKeyManagers(_, _)
FillKeyManagers(m, list) ==
  IF list = <<>> THEN m
  ELSE FillKeyManagers(MapPut(m, Head(list).Name, MarshalKeyManager(Head(list))),
                       Tail(list))

\* A replacement that fills the map already stored, and so merges.
MergeApplications(appList) == FillApplications(ApplicationMap, appList)
\* resourceMap of MarshalMultipleApplications after its loop (lines 116-120).
BuildApplicationMap(appList) == FillApplications(EmptyMap, appList)

BuildSubscriptionMap(subscriptionsList) ==
  FillSubscriptions(EmptyMap, subscriptionsList)

BuildKeyMappingMap(keymappingList) == FillKeyMappings(EmptyMap, keymappingList)

BuildKeyManagerMap(keyManagersList) == FillKeyManagers(EmptyMap, keyManagersList)

Kinds == {"application", "subscription", "keyMapping", "keyManager"}

MirrorInit ==
  /\ SubscriptionMap = EmptyMap
  /\ ApplicationMap = EmptyMap
  /\ ApplicationKeyMappingMap = EmptyMap
  /\ KeyManagerMap = EmptyMap
  /\ lastSnapshot = [k \in Kinds |-> <<>>]
  /\ droppedKey = FALSE

\* MarshalMultipleApplications, run to its end by one caller.
MarshalMultipleApplications ==
  \E appList \in SeqsUpTo(InApplications, MaxList) :
    /\ ApplicationMap' = BuildApplicationMap(appList)
    /\ lastSnapshot' = [lastSnapshot EXCEPT !["application"] = appList]
    /\ droppedKey' = (DOMAIN ApplicationMap \ DOMAIN ApplicationMap' # {})
    /\ UNCHANGED <<SubscriptionMap, ApplicationKeyMappingMap, KeyManagerMap>>
    /\ UNCHANGED notMirror

\* MarshalMultipleSubscriptions.
MarshalMultipleSubscriptions ==
  \E subscriptionsList \in SeqsUpTo(InSubscriptions, MaxOtherList) :
    /\ SubscriptionMap' = BuildSubscriptionMap(subscriptionsList)
    /\ lastSnapshot' = [lastSnapshot EXCEPT !["subscription"] = subscriptionsList]
    /\ droppedKey' = (DOMAIN SubscriptionMap \ DOMAIN SubscriptionMap' # {})
    /\ UNCHANGED <<ApplicationMap, ApplicationKeyMappingMap, KeyManagerMap>>
    /\ UNCHANGED notMirror

\* MarshalMultipleApplicationKeyMappings.
MarshalMultipleApplicationKeyMappings ==
  \E keymappingList \in SeqsUpTo(InKeyMappings, MaxOtherList) :
    /\ ApplicationKeyMappingMap' = BuildKeyMappingMap(keymappingList)
    /\ lastSnapshot' = [lastSnapshot EXCEPT !["keyMapping"] = keymappingList]
    /\ droppedKey' =
         (DOMAIN ApplicationKeyMappingMap \ DOMAIN ApplicationKeyMappingMap' # {})
    /\ UNCHANGED <<ApplicationMap, SubscriptionMap, KeyManagerMap>>
    /\ UNCHANGED notMirror

\* MarshalKeyManagers.
MarshalKeyManagers ==
  \E keyManagersList \in SeqsUpTo(InKeyManagers, MaxOtherList) :
    /\ KeyManagerMap' = BuildKeyManagerMap(keyManagersList)
    /\ lastSnapshot' = [lastSnapshot EXCEPT !["keyManager"] = keyManagersList]
    /\ droppedKey' = (DOMAIN KeyManagerMap \ DOMAIN KeyManagerMap' # {})
    /\ UNCHANGED <<ApplicationMap, SubscriptionMap, ApplicationKeyMappingMap>>
    /\ UNCHANGED notMirror

MirrorNext ==
  \/ MarshalMultipleApplications
  \/ MarshalMultipleSubscriptions
  \/ MarshalMultipleApplicationKeyMappings
  \/ MarshalKeyManagers

(***************************************************************************)
(* MarshalMultipleApplications called by several goroutines at once.       *)
(*                                                                         *)
(* ApplicationMap is a plain package variable (lines 91-100): no mutex and *)
(* no atomic guards it.  A Go map value is one pointer, so a store or a    *)
(* load of the variable moves one whole pointer; the entries live in the   *)
(* map object it points to.  A map object is named here by the goroutine   *)
(* that built it and the list it was built from.                           *)
(*                                                                         *)
(* The loads of the global at lines 122 and 125 race with the store of     *)
(* line 121 in another goroutine.  Nothing orders the stores that filled   *)
(* another goroutine's map (line 119) before such a load, so the entries   *)
(* the load's goroutine sees in that map are those of any prefix of the    *)
(* stores; in its own map it sees them all.                                *)
(***************************************************************************)
Goroutines == {"g1", "g2"}

\* The longest list of a concurrent call.
MaxRaceList == 2

RaceApplications ==
  { [UUID |-> "app-1", Name |-> "n1", TenantDomain |-> ""],
    [UUID |-> "app-2", Name |-> "n1", TenantDomain |-> "t1"] }

\* The nil map the variable holds before the first replacement.
NilMap == [owner |-> "nobody", list |-> <<>>]

RaceInit ==
  /\ appMapRef = NilMap
  /\ gpc = [g \in Goroutines |-> "idle"]
  /\ gList = [g \in Goroutines |-> <<>>]
  /\ resourceMap = [g \in Goroutines |-> EmptyMap]
  /\ gLogged = [g \in Goroutines |-> <<>>]
  /\ gReturned = [g \in Goroutines |-> <<>>]
  /\ published = {}

\* The entries goroutine g can see in the map object ref.
VisibleMaps(g, ref) ==
  IF ref.owner = g THEN {BuildApplicationMap(ref.list)}
  ELSE {BuildApplicationMap(SubSeq(ref.list, 1, k)) : k \in 0..Len(ref.list)}

\* Lines 115-120: the call, and its loop over appList into the local resourceMap.
RaceBuild(g) ==
  /\ gpc[g] = "idle"
  /\ \E appList \in SeqsUpTo(RaceApplications, MaxRaceList) :
       /\ gList' = [gList EXCEPT ![g] = appList]
       /\ resourceMap' = [resourceMap EXCEPT ![g] = BuildApplicationMap(appList)]
  /\ gpc' = [gpc EXCEPT ![g] = "built"]
  /\ UNCHANGED <<appMapRef, gLogged, gReturned, published>>
  /\ UNCHANGED notRace

\* Line 121: ApplicationMap = resourceMap.
RaceStore(g) ==
  /\ gpc[g] = "built"
  /\ appMapRef' = [owner |-> g, list |-> gList[g]]
  /\ published' = published \cup {gList[g]}
  /\ gpc' = [gpc EXCEPT ![g] = "stored"]
  /\ UNCHANGED <<gList, resourceMap, gLogged, gReturned>>
  /\ UNCHANGED notRace

\* Lines 122-124: the loop over the global ApplicationMap that logs its entries.
RaceLog(g) ==
  /\ gpc[g] = "stored"
  /\ \E seen \in VisibleMaps(g, appMapRef) :
       gLogged' = [gLogged EXCEPT ![g] = <<seen>>]
  /\ gpc' = [gpc EXCEPT ![g] = "logged"]
  /\ UNCHANGED <<appMapRef, gList, resourceMap, gReturned, published>>
  /\ UNCHANGED notRace

\* Line 125: return ApplicationMap, the global and not the local resourceMap.
RaceReturn(g) ==
  /\ gpc[g] = "logged"
  /\ gReturned' = [gReturned EXCEPT ![g] = <<appMapRef>>]
  /\ gpc' = [gpc EXCEPT ![g] = "returned"]
  /\ UNCHANGED <<appMapRef, gList, resourceMap, gLogged, published>>
  /\ UNCHANGED notRace

RaceNext ==
  \E g \in Goroutines :
    \/ RaceBuild(g)
    \/ RaceStore(g)
    \/ RaceLog(g)
    \/ RaceReturn(g)

\* The process at its start: nil maps, no call in progress.
\* No server is running beside the store.
NoServer ==
  /\ cpConfig = [err |-> TRUE]
  /\ request = [body |-> ""]
  /\ handled = FALSE
  /\ response = [status |-> 0]
  /\ clientCalls = <<>>
  /\ zipFiles = <<>>
  /\ synthesized = <<>>

\* No path is being normalized and no event matched.
NoNormalizer == schemaPath = <<>> /\ normalizedPath = <<>>

NoMatcher == matcherIn = <<>> /\ matcherOut = <<>>
NoWeights == weightsIn = <<>> /\ weightsOut = <<>>
NoRemoveEnv == removeEnvIn = <<>> /\ removeEnvOut = <<>>

Init ==
  /\ MirrorInit /\ RaceInit /\ NoServer /\ NoNormalizer /\ NoMatcher
  /\ NoWeights /\ NoRemoveEnv

SpecMirror == Init /\ [][MirrorNext]_vars

SpecRace == Init /\ [][RaceNext]_vars

(***************************************************************************)
(* Strings: the standard-library functions rest_server.go calls.           *)
(***************************************************************************)
LowerCase == "abcdefghijklmnopqrstuvwxyz"
UpperCase == "ABCDEFGHIJKLMNOPQRSTUVWXYZ"

\* The i-th character of s, as a string of length 1.
CharAt(s, i) == SubSeq(s, i, i)

\* unicode.ToUpper on one ASCII character: the table of the lower-case letters.
UpperOf ==
  [c \in {CharAt(LowerCase, i) : i \in 1..Len(LowerCase)} |->
     CharAt(UpperCase, CHOOSE i \in 1..Len(LowerCase) : CharAt(LowerCase, i) = c)]

UpperChar(c) == IF c \in DOMAIN UpperOf THEN UpperOf[c] ELSE c

\* strings.ToUpper.
RECURSIVE ToUpper(_)
ToUpper(s) ==
  IF s = "" THEN "" ELSE UpperChar(CharAt(s, 1)) \o ToUpper(SubSeq(s, 2, Len(s)))

\* strings.EqualFold, on ASCII strings.
EqualFold(s, t) == ToUpper(s) = ToUpper(t)

\* strings.HasSuffix.
HasSuffix(s, suffix) ==
  /\ Len(suffix) <= Len(s)
  /\ SubSeq(s, Len(s) - Len(suffix) + 1, Len(s)) = suffix

\* strings.TrimSuffix.
TrimSuffix(s, suffix) ==
  IF HasSuffix(s, suffix) THEN SubSeq(s, 1, Len(s) - Len(suffix)) ELSE s

\* The index of the first "}" of s at or after i, or 0.
RECURSIVE CloseAt(_, _)
CloseAt(s, i) ==
  IF i > Len(s) THEN 0
  ELSE IF CharAt(s, i) = "}" THEN i
  ELSE CloseAt(s, i + 1)

\* A normalization that replaces the leftmost match only.
RECURSIVE ReplaceFirstParam(_)
ReplaceFirstParam(path) ==
  IF path = "" THEN ""
  ELSE LET close == CloseAt(path, 2) IN
       IF CharAt(path, 1) = "{" /\ close > 2
       THEN "hardcode" \o SubSeq(path, close + 1, Len(path))
       ELSE CharAt(path, 1) \o ReplaceFirstParam(SubSeq(path, 2, Len(path)))

\* processOpenAPIPath: regexp `{[^}]+}` replaced by "hardcode", leftmost first.
\* A "{" starts a match when at least one character other than "}" follows it
\* and a "}" closes the run.
RECURSIVE processOpenAPIPath(_)
processOpenAPIPath(path) ==
  IF path = "" THEN ""
  ELSE LET close == CloseAt(path, 2) IN
       IF CharAt(path, 1) = "{" /\ close > 2
       THEN "hardcode" \o processOpenAPIPath(SubSeq(path, close + 1, Len(path)))
       ELSE CharAt(path, 1) \o processOpenAPIPath(SubSeq(path, 2, Len(path)))

\* The schema paths processOpenAPIPath is applied to: up to MaxSegments
\* segments, each a literal or a {param}.
MaxSegments == 3

LiteralSegments == {"pets", "v1.0"}
ParamSegments == {"{id}", "{petId}"}

RECURSIVE PathOf(_)
PathOf(segments) ==
  IF segments = <<>> THEN ""
  ELSE "/" \o Head(segments) \o PathOf(Tail(segments))

PathInit ==
  /\ MirrorInit
  /\ RaceInit
  /\ NoServer
  /\ NoMatcher
  /\ NoWeights
  /\ NoRemoveEnv
  /\ schemaPath \in SeqsUpTo(LiteralSegments \cup ParamSegments, MaxSegments)
  /\ normalizedPath = <<>>

\* findMatchingAPKOperation normalizes the schema path (line 1041).
NormalizePath ==
  /\ normalizedPath' = <<processOpenAPIPath(PathOf(schemaPath))>>
  /\ UNCHANGED schemaPath
  /\ UNCHANGED notPath

SpecPaths == PathInit /\ [][NormalizePath]_vars

(***************************************************************************)
(* matchRegex: regexp.Compile(regexStr) and MatchString(targetStr), for    *)
(* the patterns declared operations carry: literal characters, the group   *)
(* matching any run of characters (AnyGroup) and the group matching one    *)
(* path segment (SegmentGroup).  MatchString looks for a match anywhere in *)
(* the target: the pattern is not anchored.                                *)
(***************************************************************************)
AnyGroup == "(.*)"
SegmentGroup == "([^/]+)"

StartsWith(s, prefix) ==
  Len(prefix) <= Len(s) /\ SubSeq(s, 1, Len(prefix)) = prefix

Drop(s, n) == SubSeq(s, n + 1, Len(s))

\* Whether regex re matches a prefix of t.
RECURSIVE MatchHere(_, _)
MatchHere(re, t) ==
  IF re = "" THEN TRUE
  ELSE IF StartsWith(re, AnyGroup)
       THEN \E k \in 0..Len(t) : MatchHere(Drop(re, Len(AnyGroup)), Drop(t, k))
  ELSE IF StartsWith(re, SegmentGroup)
       THEN \E k \in 1..Len(t) :
              /\ \A i \in 1..k : CharAt(t, i) # "/"
              /\ MatchHere(Drop(re, Len(SegmentGroup)), Drop(t, k))
  ELSE /\ t # ""
       /\ CharAt(re, 1) = CharAt(t, 1)
       /\ MatchHere(Drop(re, 1), Drop(t, 1))

matchRegex(regexStr, targetStr) ==
  \E k \in 0..Len(targetStr) : MatchHere(regexStr, Drop(targetStr, k))

(***************************************************************************)
(* The operation matcher and the policy builder (extractOperations).       *)
(*                                                                         *)
(* A definition text is held as its syntax and the paths it declares:      *)
(*   syntax  "empty" (the empty string), "json", "yaml", "graphql" (a      *)
(*           GraphQL schema) or "invalid" (text no YAML parser accepts);   *)
(*   paths   path |-> verb |-> the verb's content, the annotations it      *)
(*           carries (a function, empty when it carries none).             *)
(***************************************************************************)
\* All orders of the elements of S: what ranging over a Go map can produce.
Perms(S) ==
  {f \in [1..Cardinality(S) -> S] : \A i, j \in 1..Cardinality(S) : f[i] = f[j] => i = j}

\* The names of internal/constants that the policies carry.
ModelWeightedRoundRobin == "modelWeightedRoundRobin"
V1 == "v1"
CommonType == "common"
AddHeader == "addHeader"
RemoveHeader == "removeHeader"
MirrorRequest == "mirrorRequest"
RedirectRequest == "redirectRequest"

\* yaml.Unmarshal into OpenAPIPaths (line 881), and ConvertYAMLToMap: a JSON
\* text is a YAML text too.
YAMLParses(definition) == definition.syntax \in {"json", "yaml"}

\* convertAIModelWeightsToModelConfigs: the identifier of the first descriptor
\* whose production or sandbox URL is the weight's endpoint, or "".
RECURSIVE EndpointIDFor(_, _)
EndpointIDFor(url, apimEndpoints) ==
  IF apimEndpoints = <<>> THEN ""
  ELSE LET endpoint == Head(apimEndpoints) IN
       IF endpoint.EndpointConfig.ProductionEndpoints.URL = url
       THEN endpoint.EndpointUUID
       ELSE IF endpoint.EndpointConfig.SandboxEndpoints.URL = url
       THEN endpoint.EndpointUUID
       ELSE EndpointIDFor(url, Tail(apimEndpoints))

convertAIModelWeightsToModelConfigs(weights, apimEndpoints, isProd) ==
  [i \in 1..Len(weights) |->
     [Model |-> weights[i].Model,
      EndpointID |-> EndpointIDFor(weights[i].Endpoint, apimEndpoints),
      Weight |-> weights[i].Weight]]

\* The policy of a model round robin declared on an operation (lines 903-915).
\* An absent round robin (a nil pointer) is <<>>, a present one <<r>>.
RoundRobinPolicies(aiModelBasedRoundRobin, apimEndpoints) ==
  IF aiModelBasedRoundRobin = <<>> THEN <<>>
  ELSE LET r == aiModelBasedRoundRobin[1] IN
       << [PolicyName |-> ModelWeightedRoundRobin,
           PolicyVersion |-> V1,
           PolicyType |-> "",
           Parameters |->
             [Production |->
                convertAIModelWeightsToModelConfigs(r.ProductionModels, apimEndpoints, TRUE),
              Sandbox |->
                convertAIModelWeightsToModelConfigs(r.SandboxModels, apimEndpoints, FALSE),
              SuspendDuration |-> ToString(r.OnQuotaExceedSuspendDuration)]] >>

HeaderPolicy(name, headerName, headerValue) ==
  [PolicyName |-> name, PolicyVersion |-> V1, PolicyType |-> "",
   Parameters |-> [Name |-> headerName, Value |-> headerValue]]

URLPolicy(name, url) ==
  [PolicyName |-> name, PolicyVersion |-> V1, PolicyType |-> "",
   Parameters |-> [URL |-> url]]

\* Lines 938-951, the removal of request headers: each policy is appended to
\* responseOperationPolicies and the result is assigned to
\* requestOperationPolicies.
RECURSIVE RemoveRequestHeaders(_, _, _)
RemoveRequestHeaders(requestOperationPolicies, responseOperationPolicies, names) ==
  IF names = <<>> THEN requestOperationPolicies
  ELSE RemoveRequestHeaders(
         Append(responseOperationPolicies, HeaderPolicy(RemoveHeader, Head(names), "")),
         responseOperationPolicies, Tail(names))

\* One filter of a declared operation (the switch of lines 918-1012), from and
\* to the two accumulated lists acc = [request, response].
ApplyFilter(acc, filter) ==
  IF filter.type = "APKHeaders"
  THEN LET added ==
             acc.request \o
               [i \in 1..Len(filter.RequestHeaders.AddHeaders) |->
                  HeaderPolicy(AddHeader, filter.RequestHeaders.AddHeaders[i].Name,
                               filter.RequestHeaders.AddHeaders[i].Value)]
       IN [request |->
             RemoveRequestHeaders(added, acc.response,
                                  filter.RequestHeaders.RemoveHeaders),
           response |->
             acc.response \o
               [i \in 1..Len(filter.ResponseHeaders.AddHeaders) |->
                  HeaderPolicy(AddHeader, filter.ResponseHeaders.AddHeaders[i].Name,
                               filter.ResponseHeaders.AddHeaders[i].Value)] \o
               [i \in 1..Len(filter.ResponseHeaders.RemoveHeaders) |->
                  HeaderPolicy(RemoveHeader, filter.ResponseHeaders.RemoveHeaders[i], "")]]
  ELSE IF filter.type = "APKMirrorRequest"
  THEN [request |->
          acc.request \o
            [i \in 1..Len(filter.URLs) |-> URLPolicy(MirrorRequest, filter.URLs[i])],
        response |-> acc.response]
  ELSE IF filter.type = "APKRedirectRequest"
  THEN [request |-> Append(acc.request, URLPolicy(RedirectRequest, filter.URL)),
        response |-> acc.response]
  ELSE acc

RECURSIVE ApplyFilters(_, _)
ApplyFilters(acc, filters) ==
  IF filters = <<>> THEN acc
  ELSE ApplyFilters(ApplyFilter(acc, Head(filters)), Tail(filters))

\* findMatchingAPKOperation: the index of the first declared operation, from
\* index i on, whose verb is the schema verb (case-insensitively) and whose path,
\* as a regular expression, matches the normalized schema path; 0 when there is
\* none.  The path is normalized again at every operation whose verb matches.
\* A matcher in which the last declared operation that satisfies both
\* conditions wins.
LastMatchFrom(path, verb, operations, i) ==
  LET satisfying ==
        {j \in i..Len(operations) :
           /\ EqualFold(operations[j].Verb, verb)
           /\ matchRegex(operations[j].Path, processOpenAPIPath(path))}
  IN IF satisfying = {} THEN 0
     ELSE CHOOSE j \in satisfying : \A k \in satisfying : k <= j

RECURSIVE MatchFrom(_, _, _, _)
MatchFrom(path, verb, operations, i) ==
  IF i > Len(operations) THEN 0
  ELSE IF EqualFold(operations[i].Verb, verb)
       THEN LET normalized == processOpenAPIPath(path) IN
            IF matchRegex(operations[i].Path, normalized) THEN i
            ELSE MatchFrom(normalized, verb, operations, i + 1)
  ELSE MatchFrom(path, verb, operations, i + 1)

\* A matcher that takes the first declared operation of the verb, whatever its
\* path.
FirstDeclaredOfVerb(path, verb, operations) ==
  IF \E i \in 1..Len(operations) : EqualFold(operations[i].Verb, verb)
  THEN CHOOSE i \in 1..Len(operations) :
         /\ EqualFold(operations[i].Verb, verb)
         /\ \A j \in 1..(i - 1) : ~EqualFold(operations[j].Verb, verb)
  ELSE 0

findMatchingAPKOperation(path, verb, operations) ==
  MatchFrom(path, verb, operations, 1)

\* The orders in which the loops of lines 885-886 can visit the (path, verb)
\* entries of a definition: the paths in any order and, within a path, its
\* verbs in any order.
PathVerbs(definition) ==
  UNION {{<<path, verb>> : verb \in DOMAIN definition.paths[path]} :
           path \in DOMAIN definition.paths}

VisitOrders(definition) ==
  {visit \in Perms(PathVerbs(definition)) :
     \A i, j, k \in 1..Len(visit) :
       (i < j /\ j < k /\ visit[i][1] = visit[k][1]) => visit[j][1] = visit[i][1]}

\* The state of extractOperations as its loops run: the operations emitted so
\* far, the two policy lists (declared once, before the loops: lines 865-866),
\* and the scope wrappers by name.
RECURSIVE ExtractLoop(_, _, _, _)
ExtractLoop(st, visit, declared, apimEndpoints) ==
  IF visit = <<>> THEN st
  ELSE LET path == Head(visit)[1]
           verb == Head(visit)[2]
           found == findMatchingAPKOperation(path, verb, declared)
       IN IF found = 0 THEN ExtractLoop(st, Tail(visit), declared, apimEndpoints)
          ELSE LET operationFromDP == declared[found]
                   withRoundRobin ==
                     [request |->
                        st.request \o
                          RoundRobinPolicies(operationFromDP.AIModelBasedRoundRobin,
                                             apimEndpoints),
                      response |-> st.response]
                   acc == ApplyFilters(withRoundRobin, operationFromDP.Filters)
                   apiOp == [Target |-> path,
                             Verb |-> verb,
                             AuthType |-> "Application & Application User",
                             ThrottlingPolicy |-> "Unlimited",
                             Scopes |-> operationFromDP.Scopes,
                             OperationPolicies |->
                               [Request |-> acc.request, Response |-> acc.response]]
               IN ExtractLoop(
                    [operations |-> Append(st.operations, apiOp),
                     request |-> acc.request,
                     response |-> acc.response,
                     scopes |-> st.scopes \cup
                                  {operationFromDP.Scopes[i] :
                                     i \in 1..Len(operationFromDP.Scopes)}],
                    Tail(visit), declared, apimEndpoints)

ScopeWrapper(scope) ==
  [Scope |-> [Name |-> scope, DisplayName |-> scope, Description |-> scope],
   Shared |-> FALSE]

\* The scope names of scopeOrder that are in the set names, in that order.
RECURSIVE ScopeSlice(_, _)
ScopeSlice(scopeOrder, names) ==
  IF scopeOrder = <<>> THEN <<>>
  ELSE IF Head(scopeOrder) \in names
       THEN <<ScopeWrapper(Head(scopeOrder))>> \o ScopeSlice(Tail(scopeOrder), names)
  ELSE ScopeSlice(Tail(scopeOrder), names)

\* An extraction that never reads the definition and emits every declared
\* operation as it is.
ExtractWithoutSchema(event, apimEndpoints, visit, scopeOrder) ==
  [operations |->
     [i \in 1..Len(event.API.Operations) |->
        [Target |-> event.API.Operations[i].Path,
         Verb |-> event.API.Operations[i].Verb,
         AuthType |-> "Application & Application User",
         ThrottlingPolicy |-> "Unlimited",
         Scopes |-> event.API.Operations[i].Scopes,
         OperationPolicies |-> [Request |-> <<>>, Response |-> <<>>]]],
   scopes |-> <<>>,
   err |-> FALSE]

\* extractOperations.  visit is the order in which the definition's paths and
\* verbs are ranged over, scopeOrder the order in which the scope wrappers are.
\* The GraphQL branch fills apiOperations and then falls through to the last
\* return statement (line 1035), which returns empty lists.
extractOperations(event, apimEndpoints, visit, scopeOrder) ==
  IF ToUpper(event.API.APIType) = "GRAPHQL"
  THEN [operations |-> <<>>, scopes |-> <<>>, err |-> FALSE]
  ELSE IF ToUpper(event.API.APIType) = "REST"
  THEN IF ~YAMLParses(event.API.Definition)
       THEN [operations |-> <<>>, scopes |-> <<>>, err |-> TRUE]
       ELSE LET st == ExtractLoop([operations |-> <<>>, request |-> <<>>,
                                   response |-> <<>>, scopes |-> {}],
                                  visit, event.API.Operations, apimEndpoints)
            IN [operations |-> st.operations,
                scopes |-> ScopeSlice(scopeOrder, st.scopes),
                err |-> FALSE]
  ELSE [operations |-> <<>>, scopes |-> <<>>, err |-> FALSE]

(***************************************************************************)
(* The endpoint resolver and the artifact synthesizer (createAPIYaml).     *)
(*                                                                         *)
(* A Go map[string]interface{} is a function from its keys; yaml.Marshal   *)
(* writes the keys of a map in sorted order, so the text it returns is     *)
(* determined by the map and is held as the map itself.                    *)
(***************************************************************************)
\* delete(m, k) of a Go map.
MapDelete(m, k) == [x \in DOMAIN m \ {k} |-> m[x]]

\* yaml.Marshal: a nil map gives the text "{}\n"; any other tree gives a text
\* that the tree determines, held as the tree.
MarshalYAML(isNil, tree) ==
  IF isNil THEN [text |-> "{}\n", tree |-> <<>>]
  ELSE [text |-> "yaml", tree |-> tree]

\* uuid.New().String(): the k-th identifier of the run whose random source
\* produces the stream named seed.
uuidNew(seed, k) == seed \o "-" \o ToString(k)

\* removeVersionSuffix.
\* A version suffix removal that trims the version and leaves the slash.
TrimVersionOnly(str1, str2) ==
  IF HasSuffix(str1, str2) THEN TrimSuffix(str1, str2) ELSE str1

removeVersionSuffix(str1, str2) ==
  IF HasSuffix(str1, str2) THEN TrimSuffix(str1, "/" \o str2) ELSE str1

\* The provider of createAPIYaml (lines 160-164) and the environment labels of
\* StartInternalServer and createDeployementYaml (lines 41-45, 703-707).
Provider(cfg) == IF cfg.err THEN "admin" ELSE cfg.Provider

EnvLabel(cfg) == IF cfg.err THEN <<"Default">> ELSE cfg.EnvironmentLabels

\* One SecurityConfig of an endpoint descriptor (lines 203-214), and the zero
\* value of the stage the descriptor is not of.
SecurityConfig(endpoint) ==
  [Enabled |-> endpoint.SecurityEnabled,
   Type |-> endpoint.SecurityType,
   Username |-> endpoint.BasicUsername,
   ConnectionTimeoutDuration |-> -1]

ZeroSecurityConfig ==
  [Enabled |-> FALSE, Type |-> "", Username |-> "", ConnectionTimeoutDuration |-> 0]

\* The body of the loop over multiEndpoints.ProdEndpoints (lines 176-218) at
\* its prodCount-th entry; index is the number of identifiers drawn before it.
ProductionDescriptor(multiEndpoints, prodCount, seed, index) ==
  LET endpoint == multiEndpoints.ProdEndpoints[prodCount] IN
  [DeploymentStage |-> "PRODUCTION",
   EndpointUUID |-> uuidNew(seed, index + 1) \o "--PRODUCTION",
   EndpointName |-> IF prodCount = 1 THEN "Default Production Endpoint"
                    ELSE ToString(prodCount) \o " Production Endpoint",
   EndpointConfig |->
     [EndpointType |-> multiEndpoints.Protocol,
      ProductionEndpoints |->
        [URL |-> IF endpoint.URL # ""
                 THEN multiEndpoints.Protocol \o "://" \o endpoint.URL
                 ELSE ""],
      SandboxEndpoints |-> [URL |-> ""],
      EndpointSecurity |->
        [Production |-> SecurityConfig(endpoint), Sandbox |-> ZeroSecurityConfig]]]

\* The body of the loop over multiEndpoints.SandEndpoints (lines 220-263).
SandboxDescriptor(multiEndpoints, sandCount, seed, index) ==
  LET endpoint == multiEndpoints.SandEndpoints[sandCount] IN
  [DeploymentStage |-> "SANDBOX",
   EndpointUUID |-> uuidNew(seed, index + 1) \o "--SANDBOX",
   EndpointName |-> IF sandCount = 1 THEN "Default Sandbox Endpoint"
                    ELSE ToString(sandCount) \o " Sandbox Endpoint",
   EndpointConfig |->
     [EndpointType |-> multiEndpoints.Protocol,
      ProductionEndpoints |-> [URL |-> ""],
      SandboxEndpoints |->
        [URL |-> IF endpoint.URL # ""
                 THEN multiEndpoints.Protocol \o "://" \o endpoint.URL
                 ELSE ""],
      EndpointSecurity |->
        [Production |-> ZeroSecurityConfig, Sandbox |-> SecurityConfig(endpoint)]]]

\* apimEndpints after the two loops: the production descriptors in declaration
\* order, then the sandbox descriptors.
ResolveEndpoints(multiEndpoints, seed) ==
  LET n == Len(multiEndpoints.ProdEndpoints) IN
  [i \in 1..n |-> ProductionDescriptor(multiEndpoints, i, seed, i - 1)] \o
  [j \in 1..Len(multiEndpoints.SandEndpoints) |->
     SandboxDescriptor(multiEndpoints, j, seed, n + j - 1)]

\* The descriptors of one stage, in order.
RECURSIVE OfStage(_, _)
OfStage(apimEndpoints, stage) ==
  IF apimEndpoints = <<>> THEN <<>>
  ELSE IF Head(apimEndpoints).DeploymentStage = stage
       THEN <<Head(apimEndpoints)>> \o OfStage(Tail(apimEndpoints), stage)
  ELSE OfStage(Tail(apimEndpoints), stage)

\* A primary that is set at every entry of the loop, and so is the last one.
PrimaryProductionLast(apimEndpoints) ==
  LET prod == OfStage(apimEndpoints, "PRODUCTION") IN
  IF prod = <<>> THEN [id |-> "", url |-> ""]
  ELSE [id |-> prod[Len(prod)].EndpointUUID,
        url |-> prod[Len(prod)].EndpointConfig.ProductionEndpoints.URL]

\* primaryProductionEndpointID and primaryProdcutionURL: set at prodCount = 1.
PrimaryProduction(apimEndpoints) ==
  LET prod == OfStage(apimEndpoints, "PRODUCTION") IN
  IF prod = <<>> THEN [id |-> "", url |-> ""]
  ELSE [id |-> prod[1].EndpointUUID,
        url |-> prod[1].EndpointConfig.ProductionEndpoints.URL]

\* primarySandboxEndpointID and primarySandboxURL: set at sandCount = 1.
PrimarySandbox(apimEndpoints) ==
  LET sand == OfStage(apimEndpoints, "SANDBOX") IN
  IF sand = <<>> THEN [id |-> "", url |-> ""]
  ELSE [id |-> sand[1].EndpointUUID,
        url |-> sand[1].EndpointConfig.SandboxEndpoints.URL]

\* The endpoint_security block of the API definition (lines 331-360, 633-662);
\* defaulted says whether an empty security type is written as NONE.
EndpointSecurity(api, defaulted) ==
  [sandbox |->
     [type |-> IF defaulted /\ api.SandEndpointSecurity.SecurityType = ""
               THEN "NONE" ELSE api.SandEndpointSecurity.SecurityType,
      enabled |-> api.SandEndpointSecurity.Enabled,
      apiKeyIdentifierType |-> "HEADER"],
   production |->
     [type |-> IF defaulted /\ api.ProdEndpointSecurity.SecurityType = ""
               THEN "NONE" ELSE api.ProdEndpointSecurity.SecurityType,
      enabled |-> api.ProdEndpointSecurity.Enabled,
      apiKeyIdentifierType |-> "HEADER"]]

\* An endpointConfig that keeps the stage keys of empty endpoints.
SingleEndpointConfigAllKeys(api) ==
  [endpoint_type |-> api.EndpointProtocol,
   sandbox_endpoints |-> [url |-> api.SandEndpoint],
   production_endpoints |-> [url |-> api.ProdEndpoint],
   endpoint_security |-> EndpointSecurity(api, TRUE)]

\* endpointConfig as first built from the single-endpoint fields (lines
\* 270-278, 323-361), with the stage keys of empty endpoints deleted (lines
\* 378-385).
SingleEndpointConfig(api) ==
  LET sandEndpoint == IF api.SandEndpoint # ""
                      THEN api.EndpointProtocol \o "://" \o api.SandEndpoint
                      ELSE api.SandEndpoint
      prodEndpoint == IF api.ProdEndpoint # ""
                      THEN api.EndpointProtocol \o "://" \o api.ProdEndpoint
                      ELSE api.ProdEndpoint
      full == [endpoint_type |-> api.EndpointProtocol,
               sandbox_endpoints |-> [url |-> sandEndpoint],
               production_endpoints |-> [url |-> prodEndpoint],
               endpoint_security |-> EndpointSecurity(api, TRUE)]
      noSand == IF api.SandEndpoint = "" THEN MapDelete(full, "sandbox_endpoints")
                ELSE full
  IN IF api.ProdEndpoint = "" THEN MapDelete(noSand, "production_endpoints")
     ELSE noSand

\* endpointConfig as assigned when a primary identifier is set (lines 625-663).
PrimaryEndpointConfig(api, apimEndpoints) ==
  [endpoint_type |-> api.EndpointProtocol,
   sandbox_endpoints |-> [url |-> PrimarySandbox(apimEndpoints).url],
   production_endpoints |-> [url |-> PrimaryProduction(apimEndpoints).url],
   endpoint_security |-> EndpointSecurity(api, FALSE)]

\* createAdditionalProperties: one entry per key, in the order propOrder in
\* which the map is ranged over.
createAdditionalProperties(data, propOrder) ==
  [i \in 1..Len(propOrder) |->
     [Name |-> propOrder[i], Value |-> data[propOrder[i]], Display |-> FALSE]]

\* One entry of dataArr (lines 514-602).
EndpointMap(e) ==
  [id |-> e.EndpointUUID,
   name |-> e.EndpointName,
   deploymentStage |-> e.DeploymentStage,
   endpointConfig |->
     IF e.DeploymentStage = "PRODUCTION"
     THEN [endpoint_type |-> e.EndpointConfig.EndpointType,
           production_endpoints |-> [url |-> e.EndpointConfig.ProductionEndpoints.URL],
           endpoint_security |->
             [production |-> e.EndpointConfig.EndpointSecurity.Production,
              customParameters |-> "null"]]
     ELSE [endpoint_type |-> e.EndpointConfig.EndpointType,
           sandbox_endpoints |-> [url |-> e.EndpointConfig.SandboxEndpoints.URL],
           endpoint_security |->
             [sandbox |-> e.EndpointConfig.EndpointSecurity.Sandbox,
              customParameters |-> "null"]]]

\* An endpoint document that is written as soon as a stage has a descriptor.
EndpointsYAMLWhenAny(apimEndpoints) ==
  MarshalYAML(apimEndpoints = <<>>,
              [type |-> "endpoints",
               version |-> "v4.6.0",
               data |-> [i \in 1..Len(apimEndpoints) |->
                           EndpointMap(apimEndpoints[i])]])

\* endpointsData marshalled (lines 604-612, 698): the endpoint document when a
\* stage has more than one descriptor, and the marshalled nil map otherwise.
EndpointsYAML(apimEndpoints) ==
  LET prodCount == Len(OfStage(apimEndpoints, "PRODUCTION"))
      sandCount == Len(OfStage(apimEndpoints, "SANDBOX"))
  IN MarshalYAML(~(prodCount > 1 \/ sandCount > 1),
                 [type |-> "endpoints",
                  version |-> "v4.6.0",
                  data |-> [i \in 1..Len(apimEndpoints) |->
                              EndpointMap(apimEndpoints[i])]])

\* The API-level model round robin policy (lines 666-690).
APIPolicies(api, apimEndpoints) ==
  IF api.AIModelBasedRoundRobin # <<>> /\ api.APIType # "GraphQL"
  THEN LET r == api.AIModelBasedRoundRobin[1] IN
       << [PolicyName |-> ModelWeightedRoundRobin,
           PolicyVersion |-> V1,
           PolicyType |-> CommonType,
           Parameters |->
             [Production |->
                convertAIModelWeightsToModelConfigs(r.ProductionModels, apimEndpoints, TRUE),
              Sandbox |->
                convertAIModelWeightsToModelConfigs(r.SandboxModels, apimEndpoints, FALSE),
              SuspendDuration |-> ToString(r.OnQuotaExceedSuspendDuration)]] >>
  ELSE <<>>

\* The index of the first emitted operation whose target and verb are those of
\* a schema entry, case-insensitively (lines 455-456), or 0.
RECURSIVE OperationFor(_, _, _, _)
OperationFor(path, verb, operations, i) ==
  IF i > Len(operations) THEN 0
  ELSE IF EqualFold(path, operations[i].Target) /\ EqualFold(verb, operations[i].Verb)
       THEN i
  ELSE OperationFor(path, verb, operations, i + 1)

\* The content of one verb of the definition after lines 454-469.
AnnotateVerb(path, verb, verbContent, operations) ==
  LET i == OperationFor(path, verb, operations, 1) IN
  IF i = 0 THEN verbContent
  ELSE LET secured ==
             IF Len(operations[i].Scopes) > 0
             THEN MapPut(verbContent, "security", operations[i].Scopes)
             ELSE verbContent
       IN MapPut(secured, "x-auth-type", "Application & Application User")

\* The definition createAPIYaml returns (lines 446-510): for a REST API whose
\* definition parses, the annotated paths and the default security scheme with
\* the collected scopes; otherwise the definition as it came.
RewriteDefinition(api, operations, scopes) ==
  IF EqualFold(api.APIType, "rest") /\ YAMLParses(api.Definition)
  THEN [syntax |-> "yaml",
        paths |->
          [path \in DOMAIN api.Definition.paths |->
             [verb \in DOMAIN api.Definition.paths[path] |->
                AnnotateVerb(path, verb, api.Definition.paths[path][verb], operations)]],
        securitySchemes |->
          MapPut(api.Definition.securitySchemes, "default",
                 {scopes[i].Scope.Name : i \in 1..Len(scopes)})]
  ELSE api.Definition

\* data["data"] of createAPIYaml before the primary endpoints are considered.
APIData(api, cfg, extracted, propOrder) ==
  [name |-> api.APIName,
   context |-> removeVersionSuffix(api.BasePath, api.APIVersion),
   version |-> api.APIVersion,
   organizationId |-> api.Organization,
   provider |-> Provider(cfg),
   lifeCycleStatus |-> "CREATED",
   type |-> IF api.APIType = "GraphQL" THEN "GRAPHQL" ELSE "HTTP",
   endpointConfig |-> SingleEndpointConfig(api),
   policies |-> <<"Unlimited">>,
   gatewayType |-> "wso2/apk",
   gatewayVendor |-> "wso2",
   operations |-> IF extracted.err THEN <<>> ELSE extracted.operations,
   additionalProperties |-> createAdditionalProperties(api.APIProperties, propOrder),
   securityScheme |-> api.SecurityScheme,
   authorizationHeader |-> api.AuthHeader,
   apiKeyHeader |-> api.APIKeyHeader,
   scopes |-> extracted.scopes]

\* The token counts a rate-limit descriptor gives (each a pointer: <<>> is
\* nil), under the keys of its stage.
TokenCounts(airl, stage) ==
  LET given == {k \in {"Prompt", "Completion", "Total"} :
                  (IF k = "Prompt" THEN airl.PromptTokenCount
                   ELSE IF k = "Completion" THEN airl.CompletionTokenCount
                   ELSE airl.TotalTokenCount) # <<>>}
  IN [key \in {stage \o "Max" \o k \o "TokenCount" : k \in given} |->
        IF key = stage \o "MaxPromptTokenCount" THEN airl.PromptTokenCount[1]
        ELSE IF key = stage \o "MaxCompletionTokenCount"
        THEN airl.CompletionTokenCount[1]
        ELSE airl.TotalTokenCount[1]]

\* The maxTps map after the production fields (lines 400-418).
ProductionMaxTps(api) ==
  IF api.ProdAIRL = <<>> THEN EmptyMap
  ELSE LET tokenConfig == TokenCounts(api.ProdAIRL[1], "production")
           counts == [k \in {"production", "productionTimeUnit"} |->
                        IF k = "production" THEN api.ProdAIRL[1].RequestCount
                        ELSE ToUpper(api.ProdAIRL[1].TimeUnit)]
       IN IF DOMAIN tokenConfig # {}
          THEN MapPut(counts, "tokenBasedThrottlingConfiguration",
                      MapPut(tokenConfig, "isTokenBasedThrottlingEnabled", TRUE))
          ELSE counts

\* The maxTps map after the sandbox fields (lines 421-440): the token
\* configuration of the production fields, or a new empty map, is given the
\* sandbox token counts.
MaxTps(api) ==
  LET maxTps == ProductionMaxTps(api) IN
  IF api.SandAIRL = <<>> THEN maxTps
  ELSE LET tokenConfig ==
             IF "tokenBasedThrottlingConfiguration" \in DOMAIN maxTps
             THEN maxTps["tokenBasedThrottlingConfiguration"]
             ELSE EmptyMap
           sandbox == TokenCounts(api.SandAIRL[1], "sandbox")
       IN [k \in DOMAIN maxTps \cup {"sandbox", "sandboxTimeUnit",
                                     "tokenBasedThrottlingConfiguration"} |->
             IF k = "sandbox" THEN api.SandAIRL[1].RequestCount
             ELSE IF k = "sandboxTimeUnit" THEN ToUpper(api.SandAIRL[1].TimeUnit)
             ELSE IF k = "tokenBasedThrottlingConfiguration"
             THEN [t \in DOMAIN tokenConfig \cup DOMAIN sandbox |->
                     IF t \in DOMAIN sandbox THEN sandbox[t] ELSE tokenConfig[t]]
             ELSE maxTps[k]]

\* Lines 441-443: the maxTps block is set when the map is not empty.
WithMaxTps(data, api) ==
  IF DOMAIN MaxTps(api) # {} THEN MapPut(data, "maxTps", MaxTps(api)) ELSE data

\* Lines 616-664: with a primary identifier set, the two identifiers, the
\* implementation type and the endpointConfig of the primary endpoints.
WithPrimaryEndpoints(data, api, apimEndpoints) ==
  IF PrimaryProduction(apimEndpoints).id # "" \/ PrimarySandbox(apimEndpoints).id # ""
  THEN [k \in DOMAIN data \cup {"primaryProductionEndpointId",
                                "primarySandboxEndpointId",
                                "endpointImplementationType"} |->
          IF k = "primaryProductionEndpointId" THEN PrimaryProduction(apimEndpoints).id
          ELSE IF k = "primarySandboxEndpointId" THEN PrimarySandbox(apimEndpoints).id
          ELSE IF k = "endpointImplementationType" THEN "ENDPOINT"
          ELSE IF k = "endpointConfig" THEN PrimaryEndpointConfig(api, apimEndpoints)
          ELSE data[k]]
  ELSE data

\* createAPIYaml.  rnd holds what the run draws: seed, the stream of uuid.New;
\* visit, scopeOrder and propOrder, the orders in which the maps are ranged
\* over.  apimEndpints is the function's local list of descriptors.
createAPIYaml(apiCPEvent, cfg, rnd) ==
  LET api == apiCPEvent.API
      apimEndpints == ResolveEndpoints(api.MultiEndpoints, rnd.seed)
      extracted == extractOperations(apiCPEvent, apimEndpints, rnd.visit, rnd.scopeOrder)
      operations == IF extracted.err THEN <<>> ELSE extracted.operations
      data == WithPrimaryEndpoints(
                WithMaxTps(APIData(api, cfg, extracted, rnd.propOrder), api),
                api, apimEndpints)
  IN [apiYaml |->
        MarshalYAML(FALSE,
                    [type |-> "api", version |-> "v4.6.0",
                     data |-> MapPut(data, "apiPolicies",
                                     [Request |-> APIPolicies(api, apimEndpints)])]),
      definition |-> RewriteDefinition(api, operations, extracted.scopes),
      endpointsYaml |-> EndpointsYAML(apimEndpints),
      apimEndpints |-> apimEndpints]

\* createDeployementYaml: one entry per environment label.
createDeployementYaml(vhost, cfg) ==
  MarshalYAML(FALSE,
              [type |-> "deployment_environments",
               version |-> "v4.3.0",
               data |-> [i \in 1..Len(EnvLabel(cfg)) |->
                           [displayOnDevportal |-> TRUE,
                            deploymentEnvironment |-> EnvLabel(cfg)[i],
                            deploymentVhost |-> vhost]]])

(***************************************************************************)
(* The requests and the configurations the handler is run on.              *)
(***************************************************************************)
\* The longest multi-endpoint list of a stage.
MaxEndpoints == 2

\* The event tag of a delete event (the constant DeleteEvent of the package).
DeleteEvent == "DELETE"

\* utils.OpenAPIDefaultYaml: the definition given to a REST API that brings none.
OpenAPIDefaultYaml ==
  [syntax |-> "yaml",
   paths |-> [p \in {"/*"} |-> [v \in {"get"} |-> EmptyMap]],
   securitySchemes |-> EmptyMap]

\* config.ReadConfigs: an error, or a configuration with its environment labels
\* and its provider.
Configs ==
  {[err |-> TRUE, EnvironmentLabels |-> <<>>, Provider |-> ""],
   [err |-> FALSE, EnvironmentLabels |-> <<"prod-gw", "Default">>,
    Provider |-> "apim-admin"]}

EndpointURLs == {"", "ep.example.com"}

MultiEndpoint(url) ==
  [URL |-> url, SecurityEnabled |-> FALSE, SecurityType |-> "", BasicUsername |-> ""]

\* The multi-endpoint lists of a stage: of any URLs, and of one URL.
EndpointLists == SeqsUpTo({MultiEndpoint(url) : url \in EndpointURLs}, MaxEndpoints)

SameURLLists == SeqsUpTo({MultiEndpoint("ep.example.com")}, MaxEndpoints)

NoDefinition == [syntax |-> "empty", paths |-> EmptyMap, securitySchemes |-> EmptyMap]

PetsDefinition ==
  [syntax |-> "json",
   paths |-> [p \in {"/pets", "/pets/{petId}"} |->
                IF p = "/pets" THEN [v \in {"post"} |-> EmptyMap]
                ELSE [v \in {"get"} |-> EmptyMap]],
   securitySchemes |-> EmptyMap]

\* A definition with two paths that differ in letter case only.
CasedDefinition ==
  [syntax |-> "yaml",
   paths |-> [p \in {"/pets", "/Pets"} |->
                IF p = "/pets" THEN [v \in {"post"} |-> EmptyMap]
                ELSE [v \in {"post", "get"} |-> EmptyMap]],
   securitySchemes |-> EmptyMap]

InvalidDefinition ==
  [syntax |-> "invalid", paths |-> EmptyMap, securitySchemes |-> EmptyMap]

GraphQLSchema ==
  [syntax |-> "graphql", paths |-> EmptyMap, securitySchemes |-> EmptyMap]

NoHeaders == [AddHeaders |-> <<>>, RemoveHeaders |-> <<>>]

PetsOperations ==
  << [Path |-> "/pets/([^/]+)", Verb |-> "GET", Scopes |-> <<"read">>,
      Filters |-> << [type |-> "APKHeaders",
                      RequestHeaders |->
                        [AddHeaders |-> <<[Name |-> "X-Pet", Value |-> "1"]>>,
                         RemoveHeaders |-> <<"X-Internal">>],
                      ResponseHeaders |-> NoHeaders] >>,
      AIModelBasedRoundRobin |-> <<>>],
     [Path |-> "/pets", Verb |-> "POST", Scopes |-> <<"write">>,
      Filters |-> << [type |-> "APKMirrorRequest",
                      URLs |-> <<"http://mirror.example.com">>] >>,
      AIModelBasedRoundRobin |-> <<>>] >>

GraphQLOperations ==
  << [Path |-> "hero", Verb |-> "QUERY", Scopes |-> <<"read">>, Filters |-> <<>>,
      AIModelBasedRoundRobin |-> <<>>] >>

\* The kinds of API a create/update event describes: a REST API that brings
\* no definition and declares no operation, and the APIs that do.
PlainAPI ==
  [APIType |-> "REST", Definition |-> NoDefinition, Operations |-> <<>>,
   APIProperties |-> EmptyMap]

DeclaringAPIs ==
  {[APIType |-> "rest", Definition |-> PetsDefinition, Operations |-> PetsOperations,
    APIProperties |-> [k \in {"owner", "tier"} |-> IF k = "owner" THEN "petstore" ELSE "gold"]],
   [APIType |-> "REST", Definition |-> InvalidDefinition, Operations |-> PetsOperations,
    APIProperties |-> EmptyMap],
   [APIType |-> "REST", Definition |-> CasedDefinition, Operations |-> PetsOperations,
    APIProperties |-> EmptyMap],
   [APIType |-> "GraphQL", Definition |-> GraphQLSchema, Operations |-> GraphQLOperations,
    APIProperties |-> EmptyMap],
   [APIType |-> "graphql", Definition |-> GraphQLSchema, Operations |-> GraphQLOperations,
    APIProperties |-> EmptyMap]}

NoSecurity == [SecurityType |-> "", Enabled |-> FALSE]

API(shape, prodEndpoint, sandEndpoint, prodEndpoints, sandEndpoints) ==
  [APIUUID |-> "X", RevisionID |-> "2", Vhost |-> "foo",
   APIName |-> "pets", APIVersion |-> "1.0.0", BasePath |-> "/pets/1.0.0",
   Organization |-> "org1", SecurityScheme |-> <<"oauth2">>,
   AuthHeader |-> "Authorization", APIKeyHeader |-> "apikey",
   APIType |-> shape.APIType, Definition |-> shape.Definition,
   Operations |-> shape.Operations, APIProperties |-> shape.APIProperties,
   AIModelBasedRoundRobin |-> <<>>,
   ProdAIRL |-> <<>>, SandAIRL |-> <<>>,
   EndpointProtocol |-> "https",
   ProdEndpoint |-> prodEndpoint, SandEndpoint |-> sandEndpoint,
   ProdEndpointSecurity |-> NoSecurity, SandEndpointSecurity |-> NoSecurity,
   MultiEndpoints |-> [Protocol |-> "http", ProdEndpoints |-> prodEndpoints,
                       SandEndpoints |-> sandEndpoints]]

\* The base paths and versions an event can carry: the version behind a slash
\* at the end of the base path, in its middle, glued to it, absent from it, or
\* empty.
BasePathsAndVersions ==
  { <<"/pets/1.0", "1.0">>, <<"/pets1.0", "1.0">>, <<"/pets/1.0/", "1.0">>,
    <<"/pets", "1.0">>, <<"/pets/2.0", "1.0">>, <<"/1.0", "1.0">>,
    <<"/pets/", "">>, <<"/pets", "">> }

\* The plain API with one production endpoint under each of them.
VersionedEvents ==
  {[Event |-> "CREATE",
    API |-> [API(PlainAPI, "api.example.com", "", <<>>, <<>>)
               EXCEPT !.BasePath = bv[1], !.APIVersion = bv[2]]] :
     bv \in BasePathsAndVersions}

\* The AI rate-limit descriptors of a stage: none (a nil pointer), or one
\* with no token count, with one of the three, or with the three.
AIRateLimits ==
  { <<>> } \cup
  { << [RequestCount |-> 10, TimeUnit |-> "min",
        PromptTokenCount |-> counts[1], CompletionTokenCount |-> counts[2],
        TotalTokenCount |-> counts[3]] >> :
      counts \in { << <<>>, <<>>, <<>> >>, << <<100>>, <<>>, <<>> >>,
                   << <<>>, <<200>>, <<>> >>, << <<>>, <<>>, <<300>> >>,
                   << <<100>>, <<200>>, <<300>> >> } }

\* The plain API with one production endpoint under every pair of them.
RateLimitedEvents ==
  {[Event |-> "CREATE",
    API |-> [API(PlainAPI, "api.example.com", "", <<>>, <<>>)
               EXCEPT !.ProdAIRL = prodAIRL, !.SandAIRL = sandAIRL]] :
     prodAIRL \in AIRateLimits, sandAIRL \in AIRateLimits}

\* The create/update events: the plain API with every endpoint configuration,
\* the declaring APIs with the endpoint configurations of one URL, the plain
\* API under every base path and version and under every pair of rate limits.
CreateEvents ==
  {[Event |-> "CREATE", API |-> API(PlainAPI, prodEndpoint, sandEndpoint, prods, sands)] :
     prodEndpoint \in {"", "api.example.com"},
     sandEndpoint \in {"", "sandbox.example.com"},
     prods \in EndpointLists, sands \in EndpointLists}
    \cup
  {[Event |-> "CREATE", API |-> API(shape, "api.example.com", "", prods, sands)] :
     shape \in DeclaringAPIs, prods \in SameURLLists, sands \in SameURLLists}
    \cup VersionedEvents
    \cup RateLimitedEvents

DeleteEvents ==
  {[Event |-> DeleteEvent,
    API |-> [API(PlainAPI, "", "", <<>>, <<>>)
               EXCEPT !.Vhost = vhost, !.RevisionID = revisionID]] :
     vhost \in {"foo", "bar"}, revisionID \in {"2", "3"}}

\* The bodies a request can carry: an event in JSON, or text that is none.
Requests ==
  {[body |-> "event", event |-> e] : e \in CreateEvents \cup DeleteEvents}
    \cup {[body |-> "", event |-> <<>>], [body |-> "{\"event\":", event |-> <<>>]}

\* c.ShouldBindJSON(&event): the event of the body, or the decoder's error.
ShouldBindJSON(req) ==
  IF req.body = "event" THEN [err |-> <<>>, event |-> req.event]
  ELSE IF req.body = "" THEN [err |-> <<"EOF">>, event |-> <<>>]
  ELSE [err |-> <<"unexpected EOF">>, event |-> <<>>]

\* What utils.DeleteAPIRevision and utils.ImportAPI can return: a nil error is
\* <<>>, an error <<its text>>.
DeleteOutcomes == {[err |-> <<>>], [err |-> <<"undeploy: connection refused">>]}

ImportOutcomes ==
  {[id |-> "api-7", revisionID |-> "rev-1", err |-> <<>>],
   [id |-> "", revisionID |-> "", err |-> <<"import: 500 from control plane">>]}

\* The streams of identifiers uuid.New can produce in a run.
UUIDSeeds == {"3f2a", "9c41"}

(***************************************************************************)
(* extractOperations applied to an event on its own.                       *)
(***************************************************************************)
\* The scope names the declared operations of an event carry.
DeclaredScopes(event) ==
  UNION {{event.API.Operations[i].Scopes[j] :
            j \in 1..Len(event.API.Operations[i].Scopes)} :
           i \in 1..Len(event.API.Operations)}

\* The longest list of declared operations.
MaxOperations == 2

\* The declared operations an event is made of, each with its own scope and
\* its own filters.
ItemGet ==
  [Path |-> "/pets/([^/]+)", Verb |-> "GET", Scopes |-> <<"read">>,
   Filters |-> << [type |-> "APKHeaders",
                   RequestHeaders |->
                     [AddHeaders |-> <<[Name |-> "X-Pet", Value |-> "1"]>>,
                      RemoveHeaders |-> <<"X-Internal", "X-Debug">>],
                   ResponseHeaders |-> NoHeaders] >>,
   AIModelBasedRoundRobin |-> <<>>]

AnyGet ==
  [Path |-> "/pets/(.*)", Verb |-> "GET", Scopes |-> <<"browse">>,
   Filters |-> << [type |-> "APKMirrorRequest",
                   URLs |-> <<"http://mirror.example.com">>] >>,
   AIModelBasedRoundRobin |-> <<>>]

ListPost ==
  [Path |-> "/pets", Verb |-> "POST", Scopes |-> <<"write">>,
   Filters |-> << [type |-> "APKHeaders",
                   RequestHeaders |-> NoHeaders,
                   ResponseHeaders |->
                     [AddHeaders |-> <<[Name |-> "X-Created", Value |-> "1"]>>,
                      RemoveHeaders |-> <<"Server">>]] >>,
   AIModelBasedRoundRobin |-> <<>>]

OwnersGet ==
  [Path |-> "/owners", Verb |-> "GET", Scopes |-> <<"admin">>,
   Filters |-> << [type |-> "APKRedirectRequest",
                   URL |-> "http://owners.example.com"] >>,
   AIModelBasedRoundRobin |-> <<>>]

\* An operation with two header filters: the first acts on the response, the
\* second on the request.
AuditedPost ==
  [Path |-> "/pets", Verb |-> "post", Scopes |-> <<"audit">>,
   Filters |-> << [type |-> "APKHeaders",
                   RequestHeaders |-> NoHeaders,
                   ResponseHeaders |->
                     [AddHeaders |-> <<[Name |-> "X-Audit", Value |-> "on"]>>,
                      RemoveHeaders |-> <<>>]],
                  [type |-> "APKHeaders",
                   RequestHeaders |->
                     [AddHeaders |-> <<>>, RemoveHeaders |-> <<"X-Trace">>],
                   ResponseHeaders |-> NoHeaders] >>,
   AIModelBasedRoundRobin |-> <<>>]

DeclaredOperations == {ItemGet, AnyGet, ListPost, OwnersGet, AuditedPost}

ToysDefinition ==
  [syntax |-> "yaml",
   paths |-> [p \in {"/pets/{petId}", "/pets/{petId}/toys"} |->
                [v \in {"get"} |-> EmptyMap]],
   securitySchemes |-> EmptyMap]

\* The events extractOperations is applied to: a REST API with a definition
\* that parses or does not, or a GraphQL API, and its declared operations.
MatcherEvents ==
  {[API |-> [APIType |-> kind.APIType, Definition |-> kind.Definition,
             Operations |-> operations]] :
     kind \in {[APIType |-> "REST", Definition |-> PetsDefinition],
               [APIType |-> "REST", Definition |-> ToysDefinition],
               [APIType |-> "REST", Definition |-> InvalidDefinition],
               [APIType |-> "GraphQL", Definition |-> GraphQLSchema]},
     operations \in SeqsUpTo(DeclaredOperations, MaxOperations)}

\* What each call of findMatchingAPKOperation in the loops of lines 885-887
\* returns: per (path, verb) of the definition, the index of the declared
\* operation, or 0.
LoopMatches(event) ==
  IF ToUpper(event.API.APIType) = "REST" /\ YAMLParses(event.API.Definition)
  THEN [pv \in PathVerbs(event.API.Definition) |->
          findMatchingAPKOperation(pv[1], pv[2], event.API.Operations)]
  ELSE EmptyMap

MatcherInit ==
  /\ MirrorInit
  /\ RaceInit
  /\ NoServer
  /\ NoNormalizer
  /\ NoWeights
  /\ NoRemoveEnv
  /\ matcherIn \in {<<event>> : event \in MatcherEvents}
  /\ matcherOut = <<>>

\* One call of extractOperations on the event, with no endpoint descriptor.
ExtractOperations ==
  /\ \E visit \in VisitOrders(matcherIn[1].API.Definition),
        scopeOrder \in Perms(DeclaredScopes(matcherIn[1])) :
       matcherOut' =
         << extractOperations(matcherIn[1], <<>>, visit, scopeOrder)
              @@ [matches |-> LoopMatches(matcherIn[1])] >>
  /\ UNCHANGED matcherIn
  /\ UNCHANGED notMatcher

SpecMatcher == MatcherInit /\ [][ExtractOperations]_vars

(***************************************************************************)
(* convertAIModelWeightsToModelConfigs applied to weights on their own.    *)
(***************************************************************************)
\* The longest list of model weights, and the longest multi-endpoint list of
\* a stage the descriptors are resolved from.
MaxWeights == 2
MaxDescriptors == 1

\* The model weights of a round robin: one whose endpoint is not declared, one
\* whose endpoint is the URL of a multi-endpoint entry, one whose endpoint is
\* the URL of none.
ModelWeights ==
  { [Model |-> "m-unset", Endpoint |-> "", Weight |-> 10],
    [Model |-> "m-ep", Endpoint |-> "http://ep.example.com", Weight |-> 60],
    [Model |-> "m-none", Endpoint |-> "http://none.example.com", Weight |-> 30] }

\* The multi-endpoint lists of a stage the descriptors are resolved from.
DescriptorSources ==
  SeqsUpTo({MultiEndpoint(url) : url \in {"", "ep.example.com", "alt.example.com"}},
           MaxDescriptors)

WeightsInit ==
  /\ MirrorInit
  /\ RaceInit
  /\ NoServer
  /\ NoNormalizer
  /\ NoMatcher
  /\ NoRemoveEnv
  /\ \E weights \in SeqsUpTo(ModelWeights, MaxWeights),
        prods \in DescriptorSources, sands \in DescriptorSources,
        seed \in UUIDSeeds :
       weightsIn =
         << [weights |-> weights,
             apimEndpoints |->
               ResolveEndpoints([Protocol |-> "http", ProdEndpoints |-> prods,
                                 SandEndpoints |-> sands], seed)] >>
  /\ weightsOut = <<>>

\* One call of convertAIModelWeightsToModelConfigs, for either stage.
ConvertWeights ==
  /\ \E isProd \in BOOLEAN :
       weightsOut' =
         << [isProd |-> isProd,
             configs |->
               convertAIModelWeightsToModelConfigs(weightsIn[1].weights,
                                                   weightsIn[1].apimEndpoints,
                                                   isProd)] >>
  /\ UNCHANGED weightsIn
  /\ UNCHANGED notWeight

SpecWeights == WeightsInit /\ [][ConvertWeights]_vars

(***************************************************************************)
(* removeEnv of the command-line tool (cmd/mi/delete/removeEnv.go).        *)
(*                                                                         *)
(* files is the file system: files.main[path] is the set of environments   *)
(* the main config file at path lists, files.keys[path] the set of         *)
(* environments the keys file at path has keys of.  The functions of       *)
(* package utils and credentials are not part of the sources at hand; they *)
(* are taken by their contracts: a removal that succeeds removes the       *)
(* environment from the one file it is named after; a removal from the     *)
(* keys file that returns an error leaves the file as it was.              *)
(***************************************************************************)
Environments == {"dev", "prod"}

\* utils.EnvKeysAllFilePath, the keys file of the tool, and another keys file.
EnvKeysAllFilePath == "env_keys_all.yaml"
KeysPaths == {EnvKeysAllFilePath, "test/env_keys_all.yaml"}

EnvExistsInMainConfigFile(envName, mainConfigFilePath, files) ==
  envName \in files.main[mainConfigFilePath]

EnvExistsInKeysFile(envName, envKeysFilePath, files) ==
  envName \in files.keys[envKeysFilePath]

\* utils.RemoveEnvFromKeysFile: an error when the environment is not in the
\* main config file or has no keys in the keys file, or when io says so.
RemoveEnvFromKeysFile(envName, envKeysFilePath, mainConfigFilePath, files, fails) ==
  IF \/ fails
     \/ ~EnvExistsInMainConfigFile(envName, mainConfigFilePath, files)
     \/ ~EnvExistsInKeysFile(envName, envKeysFilePath, files)
  THEN [err |-> <<"keys of the environment not removed">>, files |-> files,
        effects |-> <<>>]
  ELSE [err |-> <<>>,
        files |-> [files EXCEPT !.keys[envKeysFilePath] = @ \ {envName}],
        effects |-> <<[op |-> "RemoveEnvFromKeysFile", path |-> envKeysFilePath]>>]

\* utils.RemoveEnvFromMainConfigFile.  It succeeds, it fails before the file
\* is written, or it fails after the file was written.
RemoveEnvFromMainConfigFile(envName, mainConfigFilePath, files, outcome) ==
  IF \/ outcome = "failed unwritten"
     \/ ~EnvExistsInMainConfigFile(envName, mainConfigFilePath, files)
  THEN [err |-> <<"environment not removed">>, files |-> files, effects |-> <<>>]
  ELSE [err |-> IF outcome = "removed" THEN <<>> ELSE <<"environment not removed">>,
        files |-> [files EXCEPT !.main[mainConfigFilePath] = @ \ {envName}],
        effects |-> <<[op |-> "RemoveEnvFromMainConfigFile",
                       path |-> mainConfigFilePath]>>]

\* A removal that takes the environment out of the main config file first and
\* clears its keys afterwards.
removeEnvMainFirst(envName, mainConfigFilePath, envKeysFilePath, files, io) ==
  IF envName = ""
  THEN [err |-> <<"name of the environment cannot be blank">>, files |-> files,
        effects |-> <<>>]
  ELSE IF ~EnvExistsInMainConfigFile(envName, mainConfigFilePath, files)
  THEN [err |-> <<"environment not found">>, files |-> files, effects |-> <<>>]
  ELSE LET removed == RemoveEnvFromMainConfigFile(envName, mainConfigFilePath,
                                                  files, io.mainOutcome)
           cleared ==
             IF EnvExistsInKeysFile(envName, EnvKeysAllFilePath, files)
             THEN RemoveEnvFromKeysFile(envName, envKeysFilePath, mainConfigFilePath,
                                        files, io.keysFails)
             ELSE [err |-> <<>>, files |-> files, effects |-> <<>>]
       IN IF removed.err # <<>> THEN removed
          ELSE [err |-> cleared.err,
                files |-> [main |-> removed.files.main, keys |-> cleared.files.keys],
                effects |-> removed.effects \o cleared.effects]

\* removeEnv (lines 71-110).  io holds what the environment of the call
\* decides: how each removal goes, whether the user is logged in.  The error
\* of the logout (lines 88-93) is logged and dropped.
removeEnv(envName, mainConfigFilePath, envKeysFilePath, files, io) ==
  IF envName = ""
  THEN [err |-> <<"name of the environment cannot be blank">>, files |-> files,
        effects |-> <<>>]
  ELSE IF ~EnvExistsInMainConfigFile(envName, mainConfigFilePath, files)
  THEN [err |-> <<"environment not found">>, files |-> files, effects |-> <<>>]
  ELSE LET cleared ==
             IF EnvExistsInKeysFile(envName, EnvKeysAllFilePath, files)
             THEN RemoveEnvFromKeysFile(envName, envKeysFilePath, mainConfigFilePath,
                                        files, io.keysFails)
             ELSE [err |-> <<>>, files |-> files, effects |-> <<>>]
       IN IF cleared.err # <<>> THEN cleared
          ELSE LET removed == RemoveEnvFromMainConfigFile(envName, mainConfigFilePath,
                                                          cleared.files, io.mainOutcome)
                   logout == IF io.hasMI
                             THEN <<[op |-> "RunMILogout", path |-> ""]>>
                             ELSE <<>>
               IN [err |-> removed.err,
                   files |-> removed.files,
                   effects |-> cleared.effects \o logout \o removed.effects]

RemoveEnvInit ==
  /\ MirrorInit
  /\ RaceInit
  /\ NoServer
  /\ NoNormalizer
  /\ NoMatcher
  /\ NoWeights
  /\ \E envName \in Environments \cup {""},
        mainConfigFilePath \in {"main_config.yaml", "test/main_config.yaml"},
        envKeysFilePath \in KeysPaths,
        main \in [{"main_config.yaml", "test/main_config.yaml"} -> SUBSET Environments],
        keys \in [KeysPaths -> SUBSET Environments] :
       removeEnvIn =
         << [envName |-> envName, mainConfigFilePath |-> mainConfigFilePath,
             envKeysFilePath |-> envKeysFilePath,
             files |-> [main |-> main, keys |-> keys]] >>
  /\ removeEnvOut = <<>>

\* executeRemoveEnvCmd (lines 58-63): one call of removeEnv.
ExecuteRemoveEnvCmd ==
  /\ removeEnvOut = <<>>
  /\ \E keysFails \in BOOLEAN, mainOutcome \in {"removed", "failed unwritten", "failed written"}, hasMI \in BOOLEAN :
       removeEnvOut' =
         << removeEnv(removeEnvIn[1].envName, removeEnvIn[1].mainConfigFilePath,
                      removeEnvIn[1].envKeysFilePath, removeEnvIn[1].files,
                      [keysFails |-> keysFails, mainOutcome |-> mainOutcome,
                       hasMI |-> hasMI]) >>
  /\ UNCHANGED removeEnvIn
  /\ UNCHANGED notEnv

SpecRemoveEnv == RemoveEnvInit /\ [][ExecuteRemoveEnvCmd]_vars

(***************************************************************************)
(* The POST /apis handler (StartInternalServer, lines 61-153).             *)
(***************************************************************************)
\* JSONToYAML, applied when it returns no error (lines 97-102).
JSONToYAML(definition) ==
  IF YAMLParses(definition) THEN [definition EXCEPT !.syntax = "yaml"]
  ELSE definition

\* The event as createAPIYaml receives it (lines 94-102).
Prepared(event) ==
  LET defaulted ==
        IF EqualFold(event.API.APIType, "rest") /\ event.API.Definition.syntax = "empty"
        THEN [event EXCEPT !.API.Definition = OpenAPIDefaultYaml]
        ELSE event
  IN IF EqualFold(defaulted.API.APIType, "rest")
     THEN [defaulted EXCEPT !.API.Definition = JSONToYAML(defaulted.API.Definition)]
     ELSE defaulted

\* An answer to a body that does not bind that reports success.
BadRequestAccepted(err) == [status |-> 200, body |-> [error |-> err[1]]]

\* The answer to a body that does not bind (lines 63-66).
BadRequest(err) == [status |-> 400, body |-> [error |-> err[1]]]

\* A payload that names the last environment label.
DeletePayloadLastLabel(event, envLabel) ==
  << [revisionUuid |-> event.API.RevisionID,
      name |-> envLabel[Len(envLabel)],
      vhost |-> event.API.Vhost,
      displayOnDevportal |-> TRUE] >>

\* The payload of the undeploy call (lines 70-77).
DeletePayload(event, envLabel) ==
  << [revisionUuid |-> event.API.RevisionID,
      name |-> envLabel[1],
      vhost |-> event.API.Vhost,
      displayOnDevportal |-> TRUE] >>

\* A delete path that calls the import client again when the call failed.
UndeployCallsRetrying(event, envLabel, outcome) ==
  LET call == [op |-> "DeleteAPIRevision",
               apiUUID |-> event.API.APIUUID,
               revisionID |-> event.API.RevisionID,
               payload |-> DeletePayload(event, envLabel),
               returned |-> outcome]
  IN IF outcome.err # <<>> THEN <<call, call>> ELSE <<call>>

\* The calls the delete path makes to the import client (line 86): one call of
\* DeleteAPIRevision, whatever it returns.
UndeployCalls(event, envLabel, outcome) ==
  << [op |-> "DeleteAPIRevision",
      apiUUID |-> event.API.APIUUID,
      revisionID |-> event.API.RevisionID,
      payload |-> DeletePayload(event, envLabel),
      returned |-> outcome] >>

\* The answer of the delete path (lines 87-92).
DeleteResponse(errorUndeployRevision) ==
  IF errorUndeployRevision # <<>>
  THEN [status |-> 503, body |-> errorUndeployRevision[1]]
  ELSE [status |-> 200, body |-> [message |-> "Success"]]

\* An answer of the create/update path that ignores the error of the import.
ImportResponseIgnoringError(outcome) ==
  [status |-> 200, body |-> [id |-> outcome.id, revisionID |-> outcome.revisionID]]

\* The answer of the create/update path (lines 146-151).
ImportResponse(outcome) ==
  IF outcome.err # <<>>
  THEN [status |-> 503, body |-> outcome.err[1]]
  ELSE [status |-> 200, body |-> [id |-> outcome.id, revisionID |-> outcome.revisionID]]

\* definitionPath (lines 106-109).
DefinitionPath(api) ==
  IF ToUpper(api.APIType) = "GRAPHQL"
  THEN api.APIName \o "-" \o api.APIVersion \o "/Definitions/schema.graphql"
  ELSE api.APIName \o "-" \o api.APIVersion \o "/Definitions/swagger.yaml"

\* zipFiles (lines 110-139).
ZipFiles(api, apiYaml, definition, endpointsYaml, deploymentContent) ==
  LET dir == api.APIName \o "-" \o api.APIVersion IN
  IF endpointsYaml.text # "{}\n"
  THEN << [Path |-> dir \o "/api.yaml", Content |-> apiYaml],
          [Path |-> dir \o "/endpoints.yaml", Content |-> endpointsYaml],
          [Path |-> dir \o "/deployment_environments.yaml", Content |-> deploymentContent],
          [Path |-> DefinitionPath(api), Content |-> definition] >>
  ELSE << [Path |-> dir \o "/api.yaml", Content |-> apiYaml],
          [Path |-> dir \o "/deployment_environments.yaml", Content |-> deploymentContent],
          [Path |-> DefinitionPath(api), Content |-> definition] >>

\* The server is started with a configuration and the adapter has a request to
\* post.
ServerInit ==
  /\ MirrorInit
  /\ RaceInit
  /\ cpConfig \in Configs
  /\ request \in Requests
  /\ handled = FALSE
  /\ response = [status |-> 0]
  /\ clientCalls = <<>>
  /\ zipFiles = <<>>
  /\ synthesized = <<>>
  /\ NoNormalizer
  /\ NoMatcher
  /\ NoWeights
  /\ NoRemoveEnv

\* The body does not bind: 400 and return.
PostAPIsBadRequest ==
  /\ ShouldBindJSON(request).err # <<>>
  /\ response' = BadRequest(ShouldBindJSON(request).err)
  /\ clientCalls' = <<>>
  /\ zipFiles' = <<>>
  /\ synthesized' = <<>>
  /\ handled' = TRUE
  /\ UNCHANGED <<cpConfig, request>>
  /\ UNCHANGED notHttp

\* A delete event: the undeploy call and its answer.  json.Marshal of the
\* payload, a list of one map of strings and a boolean, returns no error.
PostAPIsDelete ==
  /\ ShouldBindJSON(request).err = <<>>
  /\ ShouldBindJSON(request).event.Event = DeleteEvent
  /\ \E outcome \in DeleteOutcomes :
       LET event == ShouldBindJSON(request).event IN
       /\ clientCalls' = UndeployCalls(event, EnvLabel(cpConfig), outcome)
       /\ response' = DeleteResponse(outcome.err)
  /\ zipFiles' = <<>>
  /\ synthesized' = <<>>
  /\ handled' = TRUE
  /\ UNCHANGED <<cpConfig, request>>
  /\ UNCHANGED notHttp

\* Any other event: synthesis, packaging, the import call and its answer.
\* An error of utils.CreateZipFile is logged and the import call is made all
\* the same.  What the handling synthesized is kept with the local list
\* apimEndpints of createAPIYaml.
PostAPIsCreate ==
  /\ ShouldBindJSON(request).err = <<>>
  /\ ShouldBindJSON(request).event.Event # DeleteEvent
  /\ LET event == Prepared(ShouldBindJSON(request).event) IN
     /\ \E seed \in UUIDSeeds, visit \in VisitOrders(event.API.Definition),
           scopeOrder \in Perms(DeclaredScopes(event)),
           propOrder \in Perms(DOMAIN event.API.APIProperties) :
          synthesized' =
            << createAPIYaml(event, cpConfig,
                             [seed |-> seed, visit |-> visit,
                              scopeOrder |-> scopeOrder, propOrder |-> propOrder])
                 @@ [deploymentContent |->
                       createDeployementYaml(event.API.Vhost, cpConfig)] >>
     /\ zipFiles' = ZipFiles(event.API, synthesized'[1].apiYaml,
                             synthesized'[1].definition,
                             synthesized'[1].endpointsYaml,
                             synthesized'[1].deploymentContent)
     /\ \E outcome \in ImportOutcomes :
          /\ clientCalls' =
               << [op |-> "ImportAPI",
                   fileName |-> "admin-" \o event.API.APIName \o "-"
                                  \o event.API.APIVersion \o ".zip",
                   zip |-> zipFiles',
                   returned |-> outcome] >>
          /\ response' = ImportResponse(outcome)
  /\ handled' = TRUE
  /\ UNCHANGED <<cpConfig, request>>
  /\ UNCHANGED notHttp

PostAPIs ==
  \/ PostAPIsBadRequest
  \/ PostAPIsDelete
  \/ PostAPIsCreate

Spec == ServerInit /\ [][PostAPIs]_vars

(***************************************************************************)
(* Claims about the entity mirror store.                                   *)
(***************************************************************************)
\* The index of the last entry of list whose key is in the set at.
LastIndex(at) == CHOOSE i \in at : \A j \in at : j <= i

AppAt(list, k) == {i \in 1..Len(list) : list[i].UUID = k}
SubAt(list, k) == {i \in 1..Len(list) : list[i].SubscriptionID = k}
KeyMappingAt(list, k) ==
  {i \in 1..Len(list) : GetApplicationKeyMappingReference(list[i]) = k}
KeyManagerAt(list, k) == {i \in 1..Len(list) : list[i].Name = k}

\* C1: after any sequence of snapshot replacements each mirror map holds exactly
\* the entries of the most recent snapshot of its entity kind, keyed by natural
\* identifier (the last entry of the list for a key that occurs twice); an entry
\* of an earlier snapshot that is absent from the latest one does not survive.
C1_ReplaceAll ==
  /\ LET list == lastSnapshot["application"] IN
       /\ DOMAIN ApplicationMap = {list[i].UUID : i \in 1..Len(list)}
       /\ \A k \in DOMAIN ApplicationMap :
            ApplicationMap[k] = MarshalApplication(list[LastIndex(AppAt(list, k))])
  /\ LET list == lastSnapshot["subscription"] IN
       /\ DOMAIN SubscriptionMap = {list[i].SubscriptionID : i \in 1..Len(list)}
       /\ \A k \in DOMAIN SubscriptionMap :
            SubscriptionMap[k] = MarshalSubscription(list[LastIndex(SubAt(list, k))])
  /\ LET list == lastSnapshot["keyMapping"] IN
       /\ DOMAIN ApplicationKeyMappingMap =
            {GetApplicationKeyMappingReference(list[i]) : i \in 1..Len(list)}
       /\ \A k \in DOMAIN ApplicationKeyMappingMap :
            ApplicationKeyMappingMap[k] =
              marshalKeyMapping(list[LastIndex(KeyMappingAt(list, k))])
  /\ LET list == lastSnapshot["keyManager"] IN
       /\ DOMAIN KeyManagerMap = {list[i].Name : i \in 1..Len(list)}
       /\ \A k \in DOMAIN KeyManagerMap :
            KeyManagerMap[k] = MarshalKeyManager(list[LastIndex(KeyManagerAt(list, k))])

\* A replacement has just removed a key of the earlier snapshot, and the
\* application map holds one entry for a list that names its key twice.
C1_Witness ==
  /\ droppedKey
  /\ Len(lastSnapshot["application"]) = 2
  /\ Cardinality(DOMAIN ApplicationMap) = 1

\* The tenant domain an entity carries after the backfill.
Backfilled(tenantDomain) ==
  IF tenantDomain = "" THEN ControlPlaneTenantDomain ELSE tenantDomain

\* C15: after any snapshot replacement, every mirrored application,
\* subscription and application key mapping carries the control-plane tenant
\* domain when the tenant domain of the incoming entity was empty, and the
\* incoming tenant domain otherwise.
C15_TenantBackfill ==
  /\ LET list == lastSnapshot["application"] IN
       \A k \in DOMAIN ApplicationMap :
         ApplicationMap[k].TenantDomain =
           Backfilled(list[LastIndex(AppAt(list, k))].TenantDomain)
  /\ LET list == lastSnapshot["subscription"] IN
       \A k \in DOMAIN SubscriptionMap :
         SubscriptionMap[k].TenantDomain =
           Backfilled(list[LastIndex(SubAt(list, k))].TenantDomain)
  /\ LET list == lastSnapshot["keyMapping"] IN
       \A k \in DOMAIN ApplicationKeyMappingMap :
         ApplicationKeyMappingMap[k].TenantDomain =
           Backfilled(list[LastIndex(KeyMappingAt(list, k))].TenantDomain)

\* C2: a replacement is an all-or-nothing swap: what a goroutine reads through
\* ApplicationMap while another goroutine replaces it is the complete map of one
\* of the snapshots stored so far, and once every call has returned the map is
\* in full that of one of the lists the calls were given.
C2_AtomicReplacement ==
  /\ \A g \in Goroutines :
       gLogged[g] # <<>> =>
         \E list \in published : gLogged[g][1] = BuildApplicationMap(list)
  /\ (\A g \in Goroutines : gpc[g] = "returned") =>
       \E g \in Goroutines : appMapRef.list = gList[g]

(***************************************************************************)
(* Claims about the POST /apis handler.                                    *)
(***************************************************************************)
\* The latest handling was of a create/update event, or of a delete event.
Created ==
  handled /\ request.body = "event" /\ request.event.Event # DeleteEvent

Deleted ==
  handled /\ request.body = "event" /\ request.event.Event = DeleteEvent

\* The multi-endpoint entries of the event, and the data of the API definition
\* the latest handling synthesized.
ProdEntries == request.event.API.MultiEndpoints.ProdEndpoints
SandEntries == request.event.API.MultiEndpoints.SandEndpoints
APIDefinition == synthesized[1].apiYaml.tree.data

\* <protocol>://<url>, and the empty string for no URL.
Rendered(protocol, url) == IF url = "" THEN "" ELSE protocol \o "://" \o url

\* An API definition with its scopes as a set.
ScopesUnordered(apiYaml) ==
  [type |-> apiYaml.tree.type,
   version |-> apiYaml.tree.version,
   data |-> [k \in DOMAIN apiYaml.tree.data |->
               IF k = "scopes"
               THEN {apiYaml.tree.data[k][i] : i \in 1..Len(apiYaml.tree.data[k])}
               ELSE apiYaml.tree.data[k]]]

SameDocuments(first, second) ==
  /\ ScopesUnordered(first.apiYaml) = ScopesUnordered(second.apiYaml)
  /\ first.endpointsYaml = second.endpointsYaml
  /\ first.deploymentContent = second.deploymentContent
  /\ first.definition = second.definition

\* C3: synthesis is idempotent: handling the same event again, under the same
\* configuration and store, synthesizes the same API definition, endpoint,
\* deployment-environment and schema documents as the handling before it, the
\* order of the scopes aside.
C3_IdempotentSynthesis ==
  [][(synthesized # <<>> /\ synthesized' # <<>> /\ request' = request
        /\ cpConfig' = cpConfig)
       => SameDocuments(synthesized[1], synthesized'[1])]_vars

\* C4: the descriptors are those of the production entries and then of the
\* sandbox entries, in declaration order; primaryProductionEndpointId is the
\* identifier of the first production descriptor and primarySandboxEndpointId
\* that of the first sandbox descriptor, the primary URL of a stage is its first
\* descriptor's URL, and the identifier of a stage without descriptor is empty
\* (with no descriptor at all, neither identifier is written).
C4_PrimaryIsFirstDescriptor ==
  Created =>
    LET N == Len(ProdEntries)
        M == Len(SandEntries)
        protocol == request.event.API.MultiEndpoints.Protocol
        descriptors == synthesized[1].apimEndpints
    IN /\ Len(descriptors) = N + M
       /\ \A i \in 1..N :
            /\ descriptors[i].DeploymentStage = "PRODUCTION"
            /\ descriptors[i].EndpointConfig.ProductionEndpoints.URL =
                 Rendered(protocol, ProdEntries[i].URL)
       /\ \A j \in 1..M :
            /\ descriptors[N + j].DeploymentStage = "SANDBOX"
            /\ descriptors[N + j].EndpointConfig.SandboxEndpoints.URL =
                 Rendered(protocol, SandEntries[j].URL)
       /\ \A i, j \in 1..(N + M) :
            descriptors[i].EndpointUUID = descriptors[j].EndpointUUID => i = j
       /\ N >= 1 =>
            /\ APIDefinition["primaryProductionEndpointId"] = descriptors[1].EndpointUUID
            /\ APIDefinition["endpointConfig"].production_endpoints.url =
                 descriptors[1].EndpointConfig.ProductionEndpoints.URL
       /\ M >= 1 =>
            /\ APIDefinition["primarySandboxEndpointId"] = descriptors[N + 1].EndpointUUID
            /\ APIDefinition["endpointConfig"].sandbox_endpoints.url =
                 descriptors[N + 1].EndpointConfig.SandboxEndpoints.URL
       /\ (N = 0 /\ M >= 1) => APIDefinition["primaryProductionEndpointId"] = ""
       /\ (M = 0 /\ N >= 1) => APIDefinition["primarySandboxEndpointId"] = ""
       /\ (N = 0 /\ M = 0) =>
            {"primaryProductionEndpointId", "primarySandboxEndpointId"}
              \cap DOMAIN APIDefinition = {}

\* An event with two production entries of different URLs and two sandbox
\* entries has been handled.
C4_Witness ==
  /\ Created
  /\ Len(ProdEntries) = 2
  /\ Len(SandEntries) = 2
  /\ ProdEntries[1].URL # ProdEntries[2].URL
  /\ APIDefinition["primaryProductionEndpointId"] # ""

\* C5: the bundle of a create/update event holds an endpoints.yaml, listing
\* every descriptor, exactly when the production list or the sandbox list has
\* more than one entry; otherwise it holds api.yaml,
\* deployment_environments.yaml and the definition file only.  The bundle is
\* what the import call is given.
C5_EndpointDocumentIffSeveral ==
  Created =>
    LET N == Len(ProdEntries)
        M == Len(SandEntries)
        descriptors == synthesized[1].apimEndpints
        paths == [i \in 1..Len(zipFiles) |-> zipFiles[i].Path]
        dir == request.event.API.APIName \o "-" \o request.event.API.APIVersion
        definitionFiles == {dir \o "/Definitions/swagger.yaml",
                            dir \o "/Definitions/schema.graphql"}
    IN /\ clientCalls[1].zip = zipFiles
       /\ IF N > 1 \/ M > 1
          THEN /\ Len(paths) = 4
               /\ paths[1] = dir \o "/api.yaml"
               /\ paths[2] = dir \o "/endpoints.yaml"
               /\ paths[3] = dir \o "/deployment_environments.yaml"
               /\ paths[4] \in definitionFiles
               /\ Len(zipFiles[2].Content.tree.data) = N + M
               /\ \A i \in 1..(N + M) :
                    /\ zipFiles[2].Content.tree.data[i].id = descriptors[i].EndpointUUID
                    /\ zipFiles[2].Content.tree.data[i].deploymentStage =
                         descriptors[i].DeploymentStage
          ELSE /\ Len(paths) = 3
               /\ paths[1] = dir \o "/api.yaml"
               /\ paths[2] = dir \o "/deployment_environments.yaml"
               /\ paths[3] \in definitionFiles

\* An event with two production entries and one sandbox entry has been
\* handled and its bundle holds the endpoint document.
C5_Witness ==
  /\ Created
  /\ Len(ProdEntries) = 2
  /\ Len(SandEntries) = 1
  /\ Len(zipFiles) = 4
  /\ zipFiles[2].Path = "pets-1.0.0/endpoints.yaml"

\* C6: in single-endpoint and in multi-endpoint mode alike, the endpointConfig
\* of the API definition holds production_endpoints (sandbox_endpoints) only
\* when the URL of that stage is not empty, and never a stage entry whose url
\* is the empty string.
C6_EmptyURLSuppressesStage ==
  Created =>
    \A stage \in {"production_endpoints", "sandbox_endpoints"} :
      stage \in DOMAIN APIDefinition["endpointConfig"] =>
        APIDefinition["endpointConfig"][stage].url # ""

FirstLabel == IF cpConfig.err THEN "Default" ELSE cpConfig.EnvironmentLabels[1]

\* C8: a delete event makes the handler call DeleteAPIRevision with the
\* event's APIUUID and RevisionID and a payload of one entry: revisionUuid the
\* event's RevisionID, name the first configured environment label, vhost the
\* event's Vhost, displayOnDevportal true.
C8_UndeployCall ==
  Deleted =>
    /\ Len(clientCalls) = 1
    /\ clientCalls[1].op = "DeleteAPIRevision"
    /\ clientCalls[1].apiUUID = request.event.API.APIUUID
    /\ clientCalls[1].revisionID = request.event.API.RevisionID
    /\ Len(clientCalls[1].payload) = 1
    /\ clientCalls[1].payload[1] =
         [revisionUuid |-> request.event.API.RevisionID,
          name |-> FirstLabel,
          vhost |-> request.event.API.Vhost,
          displayOnDevportal |-> TRUE]

\* The delete event of APIUUID X, RevisionID 2 and Vhost foo has been handled
\* under a configuration of two environment labels.
C8_Witness ==
  /\ Deleted
  /\ ~cpConfig.err
  /\ Len(cpConfig.EnvironmentLabels) = 2
  /\ request.event.API.APIUUID = "X"
  /\ request.event.API.RevisionID = "2"
  /\ request.event.API.Vhost = "foo"
  /\ clientCalls[1].payload[1].vhost = "foo"

\* C9: the answer to a well-formed event is that of the one backend call the
\* handling made: 503 with the error text as body when the call returned an
\* error; otherwise 200, with {message: Success} for a delete event and with
\* the id and revisionID the import returned for a create/update event.
C9_ResponseFollowsBackend ==
  (Created \/ Deleted) =>
    /\ Len(clientCalls) = 1
    /\ clientCalls[1].op = IF Deleted THEN "DeleteAPIRevision" ELSE "ImportAPI"
    /\ IF clientCalls[1].returned.err # <<>>
       THEN /\ response.status = 503
            /\ response.body = clientCalls[1].returned.err[1]
       ELSE /\ response.status = 200
            /\ response.body =
                 IF Deleted THEN [message |-> "Success"]
                 ELSE [id |-> clientCalls[1].returned.id,
                       revisionID |-> clientCalls[1].returned.revisionID]

\* The import of a create/update event has returned an error and the handler
\* has answered 503.
C9_Witness ==
  /\ Created
  /\ clientCalls[1].returned.err # <<>>
  /\ response.status = 503

\* C10: a request whose body does not bind to an event is answered 400 with the
\* error message of the decoder, and its handling synthesizes nothing, packages
\* nothing and makes no call to the import client.
C10_MalformedBodyRejected ==
  (handled /\ request.body # "event") =>
    /\ response.status = 400
    /\ response.body = [error |-> ShouldBindJSON(request).err[1]]
    /\ response.body.error # ""
    /\ synthesized = <<>>
    /\ zipFiles = <<>>
    /\ clientCalls = <<>>

\* The request with an empty body has been answered.
C10_Witness ==
  /\ handled
  /\ request.body = ""
  /\ response.status = 400

\* C11: one event shape is acted on per request and nothing is retried: the
\* handling of a well-formed request makes exactly one call to the import
\* client, DeleteAPIRevision for a delete event and ImportAPI for any other, and
\* a call that returned an error is not followed by another; posting the
\* request again does the same.
C11_OneCallPerRequest ==
  [][(handled' /\ request'.body = "event") =>
       /\ Len(clientCalls') = 1
       /\ clientCalls'[1].op =
            IF request'.event.Event = DeleteEvent THEN "DeleteAPIRevision"
            ELSE "ImportAPI"
       /\ (clientCalls'[1].op = "ImportAPI") = (synthesized' # <<>>)]_vars

\* The undeploy call of a delete event has returned an error and it is the one
\* call of the handling.
C11_Witness ==
  /\ Deleted
  /\ Len(clientCalls) = 1
  /\ clientCalls[1].op = "DeleteAPIRevision"
  /\ clientCalls[1].returned.err # <<>>
  /\ response.status = 503

(***************************************************************************)
(* Claims about path normalization.                                        *)
(***************************************************************************)
\* The path of the segments with every {param} segment written as the
\* placeholder.
RECURSIVE WithPlaceholders(_)
WithPlaceholders(segments) ==
  IF segments = <<>> THEN ""
  ELSE "/" \o (IF Head(segments) \in ParamSegments THEN "hardcode" ELSE Head(segments))
           \o WithPlaceholders(Tail(segments))

\* Two paths that differ in the names of their parameters only.
SameButParamNames(p, q) ==
  /\ Len(p) = Len(q)
  /\ \A i \in 1..Len(p) :
       \/ p[i] = q[i]
       \/ p[i] \in ParamSegments /\ q[i] \in ParamSegments

\* C12: the normalized path of a schema path has every {param} segment replaced
\* by the one placeholder, whatever the parameter is called, and every other
\* character as it was; two paths that differ only in the names of their
\* parameters have the same normalized path.
C12_ParamsBecomePlaceholder ==
  normalizedPath # <<>> =>
    /\ normalizedPath[1] = WithPlaceholders(schemaPath)
    /\ \A other \in SeqsUpTo(LiteralSegments \cup ParamSegments, Len(schemaPath)) :
         SameButParamNames(other, schemaPath) =>
           processOpenAPIPath(PathOf(other)) = normalizedPath[1]

\* A path of three segments with two parameters of different names has been
\* normalized.
C12_Witness ==
  /\ normalizedPath # <<>>
  /\ Len(schemaPath) = 3
  /\ schemaPath[1] = "{id}"
  /\ schemaPath[2] \in LiteralSegments
  /\ schemaPath[3] = "{petId}"
  /\ normalizedPath[1] = "/hardcode/" \o schemaPath[2] \o "/hardcode"

\* C14: the context of the synthesized API definition is the base path of the
\* event without the suffix made of "/" and the API version when the base path
\* ends with that suffix, and the base path itself otherwise; the version is
\* carried unchanged.
C14_ContextStripsVersion ==
  Created =>
    LET basePath == request.event.API.BasePath
        suffix == "/" \o request.event.API.APIVersion
    IN /\ IF HasSuffix(basePath, suffix)
          THEN APIDefinition["context"] \o suffix = basePath
          ELSE APIDefinition["context"] = basePath
       /\ APIDefinition["version"] = request.event.API.APIVersion

\* The event of base path /pets/1.0 and version 1.0 has been handled and its
\* context is /pets.
C14_Witness ==
  /\ Created
  /\ request.event.API.BasePath = "/pets/1.0"
  /\ request.event.API.APIVersion = "1.0"
  /\ APIDefinition["context"] = "/pets"

\* A create/update event of a REST API that brings a definition text, which
\* does not parse, has been handled.
CreatedUnparsed ==
  /\ Created
  /\ EqualFold(request.event.API.APIType, "rest")
  /\ request.event.API.Definition # NoDefinition
  /\ ~YAMLParses(request.event.API.Definition)

\* C16: when the definition text of a REST event does not parse, the API
\* definition is synthesized with an empty operation list although the event
\* declares operations, the bundle is packaged with api.yaml, the deployment
\* document and the definition text as it came, ImportAPI is called once with
\* that bundle, and the answer is the one the import outcome alone decides:
\* 200 with the identifiers it returned, or 503 with its error.
C16_ParseFailureDegraded ==
  CreatedUnparsed =>
    /\ APIDefinition["operations"] = <<>>
    /\ Len(zipFiles) >= 3
    /\ zipFiles[1].Content = synthesized[1].apiYaml
    /\ zipFiles[Len(zipFiles)].Path = DefinitionPath(request.event.API)
    /\ zipFiles[Len(zipFiles)].Content = request.event.API.Definition
    /\ Len(clientCalls) = 1
    /\ clientCalls[1].op = "ImportAPI"
    /\ clientCalls[1].zip = zipFiles
    /\ response.status = IF clientCalls[1].returned.err = <<>> THEN 200 ELSE 503
    /\ response.status = 200 =>
         response.body = [id |-> clientCalls[1].returned.id,
                          revisionID |-> clientCalls[1].returned.revisionID]
    /\ response.status = 503 => response.body = clientCalls[1].returned.err[1]

\* The event with the unparsable definition and two declared operations has
\* been handled, the import succeeded and the handler answered 200.
C16_Witness ==
  /\ CreatedUnparsed
  /\ Len(request.event.API.Operations) = 2
  /\ clientCalls[1].returned.err = <<>>
  /\ response.status = 200

(***************************************************************************)
(* Claims about the operation matcher and the policy builder.              *)
(***************************************************************************)
\* The elements of a list.
Range(list) == {list[i] : i \in 1..Len(list)}

\* The declared operations of the event extractOperations was applied to, and
\* what it returned.
Declared == matcherIn[1].API.Operations
Returned == matcherOut[1]

\* A declared operation satisfies a schema (path, verb): the verbs are equal
\* case-insensitively and its path, as a regular expression, matches the
\* normalized schema path.
Satisfies(operation, path, verb) ==
  /\ EqualFold(operation.Verb, verb)
  /\ matchRegex(operation.Path, processOpenAPIPath(path))

\* The declared operations that match some schema (path, verb) of the event.
MatchingSome ==
  {i \in 1..Len(Declared) :
     \E pv \in PathVerbs(matcherIn[1].API.Definition) :
       Satisfies(Declared[i], pv[1], pv[2])}

\* The policies the filters of a declared operation describe.
PoliciesOfFilter(filter) ==
  IF filter.type = "APKHeaders"
  THEN {HeaderPolicy(AddHeader, h.Name, h.Value) :
          h \in Range(filter.RequestHeaders.AddHeaders)
                  \cup Range(filter.ResponseHeaders.AddHeaders)}
         \cup {HeaderPolicy(RemoveHeader, name, "") :
                 name \in Range(filter.RequestHeaders.RemoveHeaders)
                            \cup Range(filter.ResponseHeaders.RemoveHeaders)}
  ELSE IF filter.type = "APKMirrorRequest"
  THEN {URLPolicy(MirrorRequest, url) : url \in Range(filter.URLs)}
  ELSE {URLPolicy(RedirectRequest, filter.URL)}

PoliciesOf(operation) ==
  UNION {PoliciesOfFilter(filter) : filter \in Range(operation.Filters)}

\* The policies an emitted operation carries.
Attached(apiOp) ==
  Range(apiOp.OperationPolicies.Request) \cup Range(apiOp.OperationPolicies.Response)

\* C13: a declared operation that matches no schema (path, verb) leaves nothing
\* in the output: no emitted operation carries a policy that only the filters
\* of such operations describe, and the scope set holds no scope that only such
\* operations declare.
C13_UnmatchedLeavesNothing ==
  matcherOut # <<>> =>
    LET fromMatching == UNION {PoliciesOf(Declared[j]) : j \in MatchingSome}
        scopesOfMatching == UNION {Range(Declared[j].Scopes) : j \in MatchingSome}
    IN \A i \in (1..Len(Declared)) \ MatchingSome :
         /\ \A apiOp \in Range(Returned.operations) :
              Attached(apiOp) \cap PoliciesOf(Declared[i]) \subseteq fromMatching
         /\ \A wrapper \in Range(Returned.scopes) :
              wrapper.Scope.Name \in Range(Declared[i].Scopes) =>
                wrapper.Scope.Name \in scopesOfMatching

\* The event that declares /owners before the pet of an id, with a definition
\* that has no /owners path, has been matched and one operation was emitted.
C13_Witness ==
  /\ matcherOut # <<>>
  /\ Declared = <<OwnersGet, ItemGet>>
  /\ matcherIn[1].API.Definition = PetsDefinition
  /\ Len(Returned.operations) = 1
  /\ Returned.operations[1].Scopes = <<"read">>

\* The declared operations that satisfy a schema (path, verb).
SatisfyingAll(pv) ==
  {i \in 1..Len(Declared) : Satisfies(Declared[i], pv[1], pv[2])}

\* C17: for every schema (path, verb), findMatchingAPKOperation returns the
\* declared operation of least index among those whose verb equals the schema
\* verb case-insensitively and whose path matches the normalized schema path,
\* and returns none exactly when no declared operation satisfies both.
C17_FirstMatchWins ==
  matcherOut # <<>> =>
    \A pv \in DOMAIN Returned.matches :
      IF SatisfyingAll(pv) = {}
      THEN Returned.matches[pv] = 0
      ELSE /\ Returned.matches[pv] \in SatisfyingAll(pv)
           /\ \A j \in SatisfyingAll(pv) : Returned.matches[pv] <= j

\* Two declared operations satisfy the schema entry of the pet of an id, and
\* the one declared first has been returned.
C17_Witness ==
  /\ matcherOut # <<>>
  /\ Declared = <<AnyGet, ItemGet>>
  /\ matcherIn[1].API.Definition = PetsDefinition
  /\ SatisfyingAll(<<"/pets/{petId}", "get">>) = {1, 2}
  /\ Returned.matches[<<"/pets/{petId}", "get">>] = 1
  /\ Returned.matches[<<"/pets", "post">>] = 0

\* C18: in one run no declared operation is matched to more than one schema
\* (path, verb), and no schema (path, verb) is matched to more than one
\* declared operation: at most one operation is emitted for it.
C18_OneToOne ==
  matcherOut # <<>> =>
    /\ \A pv1, pv2 \in DOMAIN Returned.matches :
         (pv1 # pv2 /\ Returned.matches[pv1] # 0) =>
           Returned.matches[pv1] # Returned.matches[pv2]
    /\ \A i, j \in 1..Len(Returned.operations) :
         (Returned.operations[i].Target = Returned.operations[j].Target
            /\ Returned.operations[i].Verb = Returned.operations[j].Verb) => i = j

\* The declared operation an emitted operation was matched to.
MatchedBy(apiOp) == Declared[Returned.matches[<<apiOp.Target, apiOp.Verb>>]]

\* C19: the request and response policy lists of each emitted operation hold
\* only policies translated from the filters of the declared operation it
\* matched, whatever the order in which the schema paths were visited.
C19_PoliciesPerOperation ==
  matcherOut # <<>> =>
    \A apiOp \in Range(Returned.operations) :
      Attached(apiOp) \subseteq PoliciesOf(MatchedBy(apiOp))

\* The policies of a list that remove one of the headers named.
Removals(policies, names) ==
  SelectSeq(policies,
            LAMBDA p : p.PolicyName = RemoveHeader /\ p.Parameters.Name \in Range(names))

\* C20: for every header filter of the declared operation an emitted operation
\* matched, the request policy list of the emitted operation holds one
\* removeHeader policy per name the request side of the filter lists, in the
\* order of the names and with no value, and still holds the addHeader
\* policies that were put in the list before them.
C20_RequestHeaderRemovals ==
  matcherOut # <<>> =>
    \A apiOp \in Range(Returned.operations) :
      \A filter \in Range(MatchedBy(apiOp).Filters) :
        filter.type = "APKHeaders" =>
          LET names == filter.RequestHeaders.RemoveHeaders
              requestPolicies == apiOp.OperationPolicies.Request
          IN /\ Removals(requestPolicies, names) =
                  [i \in 1..Len(names) |-> HeaderPolicy(RemoveHeader, names[i], "")]
             /\ \A h \in Range(filter.RequestHeaders.AddHeaders) :
                  HeaderPolicy(AddHeader, h.Name, h.Value) \in Range(requestPolicies)

\* The policies the filters of a declared operation put on the request side
\* and on the response side, in the order of the filters.
RECURSIVE RequestSide(_)
RequestSide(filters) ==
  IF filters = <<>> THEN <<>>
  ELSE LET filter == Head(filters) IN
       (IF filter.type = "APKHeaders"
        THEN [i \in 1..Len(filter.RequestHeaders.AddHeaders) |->
                HeaderPolicy(AddHeader, filter.RequestHeaders.AddHeaders[i].Name,
                             filter.RequestHeaders.AddHeaders[i].Value)] \o
             [i \in 1..Len(filter.RequestHeaders.RemoveHeaders) |->
                HeaderPolicy(RemoveHeader, filter.RequestHeaders.RemoveHeaders[i], "")]
        ELSE IF filter.type = "APKMirrorRequest"
        THEN [i \in 1..Len(filter.URLs) |-> URLPolicy(MirrorRequest, filter.URLs[i])]
        ELSE <<URLPolicy(RedirectRequest, filter.URL)>>)
         \o RequestSide(Tail(filters))

RECURSIVE ResponseSide(_)
ResponseSide(filters) ==
  IF filters = <<>> THEN <<>>
  ELSE LET filter == Head(filters) IN
       (IF filter.type = "APKHeaders"
        THEN [i \in 1..Len(filter.ResponseHeaders.AddHeaders) |->
                HeaderPolicy(AddHeader, filter.ResponseHeaders.AddHeaders[i].Name,
                             filter.ResponseHeaders.AddHeaders[i].Value)] \o
             [i \in 1..Len(filter.ResponseHeaders.RemoveHeaders) |->
                HeaderPolicy(RemoveHeader, filter.ResponseHeaders.RemoveHeaders[i], "")]
        ELSE <<>>)
         \o ResponseSide(Tail(filters))

\* C21: the request list of the first operation emitted, built from empty
\* lists, holds the request-side policies of its filters in the order the
\* filters are declared, and its response list the response-side ones; and no
\* emitted operation has in its request list a policy that a response header
\* of a declared operation gave, nor in its response list one that a request
\* side gave.
C21_DirectionsSeparate ==
  matcherOut # <<>> =>
    LET requestDerived ==
          UNION {Range(RequestSide(d.Filters)) : d \in Range(Declared)}
        responseDerived ==
          UNION {Range(ResponseSide(d.Filters)) : d \in Range(Declared)}
    IN /\ Returned.operations # <<>> =>
            LET first == Returned.operations[1] IN
            /\ first.OperationPolicies.Request = RequestSide(MatchedBy(first).Filters)
            /\ first.OperationPolicies.Response = ResponseSide(MatchedBy(first).Filters)
       /\ \A apiOp \in Range(Returned.operations) :
            /\ Range(apiOp.OperationPolicies.Request) \cap responseDerived = {}
            /\ Range(apiOp.OperationPolicies.Response) \cap requestDerived = {}

\* C23: in the rewritten definition of a REST event, the content of a
\* (path, verb) entry differs from the content the event brought, by a
\* security block or the x-auth-type annotation, only if a declared operation
\* of the event matches that entry; every other entry is emitted as it came.
C23_UnmatchedUnannotated ==
  (/\ Created
   /\ EqualFold(request.event.API.APIType, "rest")
   /\ YAMLParses(Prepared(request.event).API.Definition)) =>
    LET brought == Prepared(request.event).API.Definition.paths
        rewritten == synthesized[1].definition.paths
        declared == request.event.API.Operations
    IN /\ DOMAIN rewritten = DOMAIN brought
       /\ \A path \in DOMAIN brought :
            /\ DOMAIN rewritten[path] = DOMAIN brought[path]
            /\ \A verb \in DOMAIN brought[path] :
                 (\A i \in 1..Len(declared) : ~Satisfies(declared[i], path, verb)) =>
                   rewritten[path][verb] = brought[path][verb]

\* The bundle of the latest handling holds an endpoint document.
EndpointDocumentEmitted ==
  \E i \in 1..Len(zipFiles) :
    zipFiles[i].Path = request.event.API.APIName \o "-"
                         \o request.event.API.APIVersion \o "/endpoints.yaml"

\* C24: the API definition carries the primary endpoint identifiers and
\* endpointImplementationType = ENDPOINT exactly when the bundle holds an
\* endpoint document, that is when a stage has more than one entry; and every
\* primary identifier it carries is the id of a descriptor listed in that
\* document.
C24_PrimaryMarkerIffDocument ==
  Created =>
    LET marked ==
          /\ {"primaryProductionEndpointId", "primarySandboxEndpointId",
              "endpointImplementationType"} \subseteq DOMAIN APIDefinition
          /\ APIDefinition["endpointImplementationType"] = "ENDPOINT"
        unmarked ==
          {"primaryProductionEndpointId", "primarySandboxEndpointId",
           "endpointImplementationType"} \cap DOMAIN APIDefinition = {}
    IN /\ EndpointDocumentEmitted = (Len(ProdEntries) > 1 \/ Len(SandEntries) > 1)
       /\ IF EndpointDocumentEmitted THEN marked ELSE unmarked
       /\ marked =>
            \A key \in {"primaryProductionEndpointId", "primarySandboxEndpointId"} :
              APIDefinition[key] # "" =>
                /\ EndpointDocumentEmitted
                /\ \E i \in 1..Len(synthesized[1].endpointsYaml.tree.data) :
                     synthesized[1].endpointsYaml.tree.data[i].id = APIDefinition[key]

\* A rate-limit descriptor is given and names a token count.
GivesTokens(airl) ==
  /\ airl # <<>>
  /\ \/ airl[1].PromptTokenCount # <<>>
     \/ airl[1].CompletionTokenCount # <<>>
     \/ airl[1].TotalTokenCount # <<>>

\* C25: the maxTps block of the API definition is there when a rate-limit
\* descriptor is given for a stage; its tokenBasedThrottlingConfiguration is
\* there exactly when a prompt, completion or total token count is given for
\* production or for sandbox, and then carries isTokenBasedThrottlingEnabled =
\* TRUE.
C25_TokenLimitsConsistent ==
  Created =>
    LET api == request.event.API
        tokens == GivesTokens(api.ProdAIRL) \/ GivesTokens(api.SandAIRL)
    IN /\ ("maxTps" \in DOMAIN APIDefinition) =
            (api.ProdAIRL # <<>> \/ api.SandAIRL # <<>>)
       /\ "maxTps" \in DOMAIN APIDefinition =>
            LET maxTps == APIDefinition["maxTps"] IN
            /\ ("tokenBasedThrottlingConfiguration" \in DOMAIN maxTps) = tokens
            /\ "tokenBasedThrottlingConfiguration" \in DOMAIN maxTps =>
                 LET tokenConfig == maxTps["tokenBasedThrottlingConfiguration"] IN
                 /\ "isTokenBasedThrottlingEnabled" \in DOMAIN tokenConfig
                 /\ tokenConfig["isTokenBasedThrottlingEnabled"] = TRUE

\* C26: for a GraphQL create/update event the operations of the API
\* definition are one per declared operation, in declaration order, each with
\* the declared path as target, the declared verb, the auth type
\* "Application & Application User" and the throttling policy Unlimited.
C26_GraphQLOperations ==
  (Created /\ ToUpper(request.event.API.APIType) = "GRAPHQL") =>
    LET declared == request.event.API.Operations
        operations == APIDefinition["operations"]
    IN /\ Len(operations) = Len(declared)
       /\ \A i \in 1..Len(declared) :
            /\ operations[i].Target = declared[i].Path
            /\ operations[i].Verb = declared[i].Verb
            /\ operations[i].AuthType = "Application & Application User"
            /\ operations[i].ThrottlingPolicy = "Unlimited"

\* C27: whatever the letter case of the APIType of the event, the definition
\* file of the bundle is Definitions/schema.graphql exactly when the type of
\* the API definition is GRAPHQL and Definitions/swagger.yaml exactly when it
\* is HTTP, and the API definition has an API-level policy only when its type
\* is HTTP.
C27_BundleAgreesOnType ==
  Created =>
    LET dir == request.event.API.APIName \o "-" \o request.event.API.APIVersion
        definitionFile == zipFiles[Len(zipFiles)].Path
    IN /\ (definitionFile = dir \o "/Definitions/schema.graphql") =
            (APIDefinition["type"] = "GRAPHQL")
       /\ (definitionFile = dir \o "/Definitions/swagger.yaml") =
            (APIDefinition["type"] = "HTTP")
       /\ APIDefinition["apiPolicies"].Request # <<>> => APIDefinition["type"] = "HTTP"

\* C28: under concurrent replacements, a call of MarshalMultipleApplications
\* that has returned has returned the map it built from its own argument
\* list, not the map another call stored.
C28_ReturnsOwnMap ==
  \A g \in Goroutines :
    gReturned[g] # <<>> =>
      /\ gReturned[g][1].owner = g
      /\ gReturned[g][1].list = gList[g]

(***************************************************************************)
(* Claims about the model weights.                                         *)
(***************************************************************************)
\* The URL of a descriptor: that of the stage it was resolved for.
OwnURL(endpoint) ==
  IF endpoint.DeploymentStage = "PRODUCTION"
  THEN endpoint.EndpointConfig.ProductionEndpoints.URL
  ELSE endpoint.EndpointConfig.SandboxEndpoints.URL

\* C22: each model weight yields one model config, in input order, with its
\* model and weight; the endpointId is the identifier of the first descriptor
\* whose URL equals the endpoint of the weight, and is empty when the endpoint
\* of the weight is the URL of no descriptor.
C22_WeightsBoundByURL ==
  weightsOut # <<>> =>
    LET weights == weightsIn[1].weights
        apimEndpoints == weightsIn[1].apimEndpoints
        configs == weightsOut[1].configs
    IN /\ Len(configs) = Len(weights)
       /\ \A i \in 1..Len(weights) :
            LET having == {j \in 1..Len(apimEndpoints) :
                             OwnURL(apimEndpoints[j]) = weights[i].Endpoint}
            IN /\ configs[i].Model = weights[i].Model
               /\ configs[i].Weight = weights[i].Weight
               /\ configs[i].EndpointID =
                    IF having = {} THEN ""
                    ELSE apimEndpoints[CHOOSE j \in having :
                                         \A k \in having : j <= k].EndpointUUID

(***************************************************************************)
(* Claims about removeEnv.                                                 *)
(***************************************************************************)
\* The positions of an operation in the effects of the call.
EffectsOf(op) ==
  {i \in 1..Len(removeEnvOut[1].effects) : removeEnvOut[1].effects[i].op = op}

\* The errors removeEnv returns before it reaches the main config file: a blank
\* name, an environment the main config file does not list, keys not removed.
EarlyErrors ==
  {<<"name of the environment cannot be blank">>, <<"environment not found">>,
   <<"keys of the environment not removed">>}

\* C29: removeEnv returns nil only after the environment has been removed from
\* the main config file; when it returns an error for a blank name, for an
\* environment absent from the main config file or for keys it could not
\* remove, every main config file lists the environments it listed before the
\* call and no removal from it was started; and a removal from a keys file
\* comes before the removal from the main config file.
C29_MainConfigChangedOnSuccessOnly ==
  removeEnvOut # <<>> =>
    LET call == removeEnvIn[1]
        out == removeEnvOut[1]
    IN /\ out.err = <<>> =>
            /\ call.envName \in call.files.main[call.mainConfigFilePath]
            /\ out.files.main =
                 [call.files.main EXCEPT ![call.mainConfigFilePath] = @ \ {call.envName}]
            /\ EffectsOf("RemoveEnvFromMainConfigFile") # {}
       /\ out.err \in EarlyErrors =>
            /\ out.files.main = call.files.main
            /\ EffectsOf("RemoveEnvFromMainConfigFile") = {}
       /\ \A i \in EffectsOf("RemoveEnvFromKeysFile"),
             j \in EffectsOf("RemoveEnvFromMainConfigFile") : i < j

\* The environment had keys in the keys file of the tool; its keys were
\* cleared and then it was removed from the main config file.
C29_Witness ==
  /\ removeEnvOut # <<>>
  /\ removeEnvOut[1].err = <<>>
  /\ removeEnvIn[1].envName \in
       removeEnvIn[1].files.keys[removeEnvIn[1].envKeysFilePath]
  /\ EffectsOf("RemoveEnvFromKeysFile") = {1}
  /\ EffectsOf("RemoveEnvFromMainConfigFile") = {Len(removeEnvOut[1].effects)}
  /\ removeEnvIn[1].envName \notin
       removeEnvOut[1].files.main[removeEnvIn[1].mainConfigFilePath]

\* C30: when removeEnv returns nil for an environment that had keys in the
\* keys file at envKeysFilePath, the keys file at envKeysFilePath no longer
\* has them; and no other keys file is changed.
C30_KeysClearedFromGivenFile ==
  (removeEnvOut # <<>> /\ removeEnvOut[1].err = <<>>) =>
    LET call == removeEnvIn[1]
        out == removeEnvOut[1]
    IN /\ call.envName \notin out.files.keys[call.envKeysFilePath]
       /\ \A path \in KeysPaths \ {call.envKeysFilePath} :
            out.files.keys[path] = call.files.keys[path]

====
